---- MODULE Spec2Model ----
(***************************************************************************)
(* Model of strongbox-catalogue-builder-go: the concurrent WowInterface    *)
(* crawl (src/cli/commands.go: Scrape, scrapeWowInterface, processURL),    *)
(* the retry policy (src/retry/retry.go), the cache transport             *)
(* (src/cache/cache.go), the GitHub CSV source (src/github/parser.go)      *)
(* and the merge/build pipeline (src/catalogue/builder_test.go).           *)
(***************************************************************************)
EXTENDS Integers, Sequences, FiniteSets, TLC

\* ------------------------------------------------------------------ bounds
\* Largest worker count (config.MaxWorkers ranges over 1..MaxWorkersBound).
MaxWorkersBound == 2
\* Number of distinct URLs of the site; URL 1 is the starting URL.
NumURLs == 2
\* Capacity of the frontier channel (make(chan string, 20000) scaled down).
ChanCap == 1
\* Largest number of DownloadURLs one parse returns.
MaxLinks == 2
\* Largest number of rows of the GitHub CSV feed.
MaxRows == 2
\* Longest addon list given to a direct BuildCatalogue call.
MaxAddons == 2
\* Most builder calls composed on one catalogue.
MaxOps == 3
\* Most partial records given to a direct MergeAddonData call.
MaxMergeRecords == 3
\* Most different results recorded of the MergeAddonData calls on one input.
MaxMergeResults == 2
\* Largest attempt number given to a direct getRetryDelay call.
MaxDelayAttempt == 5
\* Largest InitialDelay and MaxDelay (in seconds) of a retry.Config.
MaxConfigDelay == 8
\* Most RoundTrip calls made through one caching transport.
MaxFetches == 2
\* Hours the clock advances during one run.
MaxRunHours == 1
\* The largest config.MaxAttempts of a WithRetry call with any configuration.
MaxConfigAttempts == 3

\* ------------------------------------------------------- program constants
\* retry.DefaultConfig().MaxAttempts
MaxAttempts == 3

\* main's cacheConfig.DefaultTTLHours
DefaultTTLHours == 48
\* main's cacheConfig.SearchTTLHours
SearchTTLHours == 2

\* Scrape's cutoff for the short catalogue (2022-11-28) on the model's day scale:
\* 0 is the zero time, 1 a day before the cutoff, 3 a day after it.
CutoffDate == 2

Workers == 1..MaxWorkersBound
URLs == 1..NumURLs
NoWorker == 0
\* A nil *time.Time / *int.
Nil == -1

\* types.Source
WowInterfaceSource == "wowinterface"
GitHubSource == "github"

\* wowi.StartingURLs: the API file list is the only starting URL.
StartingURLs == <<1>>

\* Sequences over S of length 0..n.
SeqsUpTo(S, n) == UNION {[1..k -> S] : k \in 0..n}

\* ------------------------------------------------------------ retry policy
\* One attempt's outcome: 0 is a network-level error, otherwise the status.
NetErr == 0
Outcomes == {NetErr, 200, 404, 429, 500}

\* Mutant: every status from 400 on is retried.
shouldRetryClientErrors(o) == o = NetErr \/ o >= 400

\* retry.shouldRetry
shouldRetry(o) == o = NetErr \/ o = 429 \/ o >= 500

\* The loop of retry.WithRetry from attempt number `attempt` on, for the
\* attempt outcomes outs and config.MaxAttempts = maxAttempts; ctxDone says
\* whether ctx.Done() is ready during the backoff waits.
\* Result: status (0 = nil response), err ("nil", "exhausted", "ctx"),
\* attempts made.
RECURSIVE WithRetryLoop(_, _, _, _)
WithRetryLoop(outs, maxAttempts, attempt, ctxDone) ==
  IF attempt > maxAttempts
  THEN \* The loop condition fails with no break before it: no attempt was
       \* made, lastErr and lastResp are nil, and `return lastResp, nil`
       \* returns them.
       [status |-> 0, err |-> "nil", attempts |-> attempt - 1]
  ELSE
  LET o == outs[attempt] IN
  IF o = 200 THEN [status |-> 200, err |-> "nil", attempts |-> attempt]
  ELSE IF ~shouldRetry(o)
       THEN [status |-> o, err |-> "nil", attempts |-> attempt]
  ELSE IF attempt = maxAttempts
       THEN IF o = NetErr
            THEN [status |-> 0, err |-> "exhausted", attempts |-> attempt]
            ELSE [status |-> o, err |-> "nil", attempts |-> attempt]
  ELSE IF ctxDone
       THEN [status |-> 0, err |-> "ctx", attempts |-> attempt]
  ELSE WithRetryLoop(outs, maxAttempts, attempt + 1, ctxDone)

\* retry.WithRetry called with config: the loop from attempt 1 on.
WithRetryConfig(outs, maxAttempts, ctxDone) ==
  WithRetryLoop(outs, maxAttempts, 1, ctxDone)

\* The loop under DefaultConfig, as processURL calls it.
WithRetryFrom(outs, attempt, ctxDone) ==
  WithRetryLoop(outs, MaxAttempts, attempt, ctxDone)

WithRetry(outs, ctxDone) == WithRetryFrom(outs, 1, ctxDone)

AttemptSeqs == [1..MaxAttempts -> Outcomes]

\* http.RealHTTPClient.Get with a cancelled context: the request fails with
\* the context's error, whatever the server would have answered.
CancelledSeqs == [1..MaxAttempts -> {NetErr}]

\* What processURL sees of a fetch: the final status and the error.
FetchView(r) == [status |-> r.status, err |-> r.err]
FetchResultsLive == {FetchView(WithRetry(outs, FALSE)) : outs \in AttemptSeqs}
FetchResultsCancelled == {FetchView(WithRetry(outs, TRUE)) : outs \in CancelledSeqs}

\* ------------------------------------------------------------- retry delay
\* Durations are counted in seconds (time.Second is 1).

\* A response as getRetryDelay reads it: the status and Headers["Retry-After"]
\* ("" when the header is absent).
Response(status, retryAfter) == [status |-> status, retryAfter |-> retryAfter]

\* The nil *http.Response of an attempt that ended in an error.
NilResponse == Response(Nil, "")

\* The Retry-After values a server sends: none, delay-seconds, an HTTP-date.
RetryAfterValues == {"", "0", "2", "100", "Wed, 21 Oct 2015 07:28:00 GMT"}

\* strconv.Atoi on those values: the number, or an error.
Atoi(str) ==
  CASE str = "0" -> [n |-> 0, err |-> FALSE]
    [] str = "2" -> [n |-> 2, err |-> FALSE]
    [] str = "100" -> [n |-> 100, err |-> FALSE]
    [] OTHER -> [n |-> 0, err |-> TRUE]

\* retry.Config: the two delays.
Config(initialDelay, maxDelay) ==
  [InitialDelay |-> initialDelay, MaxDelay |-> maxDelay]

\* retry.DefaultConfig()
DefaultConfig == Config(1, 8)

\* The Retry-After branch of getRetryDelay is taken: a 429 response whose
\* header parses as a positive number of seconds.
RetryAfterUsed(resp) ==
  /\ resp # NilResponse /\ resp.status = 429
  /\ resp.retryAfter # ""
  /\ ~Atoi(resp.retryAfter).err /\ Atoi(resp.retryAfter).n > 0

\* for i := 1; i < attempt; i++ { delay *= 2; if delay > MaxDelay {...} }
RECURSIVE BackoffFrom(_, _, _, _)
BackoffFrom(delay, i, attempt, config) ==
  IF i >= attempt THEN delay
  ELSE IF delay * 2 > config.MaxDelay THEN config.MaxDelay
  ELSE BackoffFrom(delay * 2, i + 1, attempt, config)

\* retry.getRetryDelay
getRetryDelay(resp, attempt, config) ==
  IF RetryAfterUsed(resp)
  THEN IF Atoi(resp.retryAfter).n > config.MaxDelay
       THEN config.MaxDelay
       ELSE Atoi(resp.retryAfter).n
  ELSE BackoffFrom(config.InitialDelay, 1, attempt, config)

\* ------------------------------------------------------------ cache transport
\* File names and URL paths are strings of characters, written as tuples.

\* Largest index of character c in str, 0 when it has none.
LastIndexOf(str, c) ==
  LET is == {i \in 1..Len(str) : str[i] = c}
  IN IF is = {} THEN 0 ELSE CHOOSE i \in is : \A j \in is : j <= i

\* filepath.Base on a path that does not end in a separator.
Base(path) == SubSeq(path, LastIndexOf(path, "/") + 1, Len(path))

\* filepath.Ext: the suffix from the final dot of the final element on, empty
\* when that element has no dot.
Ext(path) ==
  LET b == Base(path)
  IN IF LastIndexOf(b, ".") = 0 THEN <<>>
     ELSE SubSeq(b, LastIndexOf(b, "."), Len(b))

SearchPath == <<"/", "s", "e", "a", "r", "c", "h">>
FileListName == <<"f", "i", "l", "e", "l", "i", "s", "t", ".", "j", "s", "o", "n">>
ZipExt == <<".", "z", "i", "p">>
SearchSuffix == <<"-", "s", "e", "a", "r", "c", "h">>
ZipSuffix == <<"-", "z", "i", "p">>
FileListSuffix == <<"-", "f", "i", "l", "e", "l", "i", "s", "t">>

\* An *http.Request: its URL and the URL's path.
Request(url, path) == [url |-> url, path |-> path]

SearchRequest == Request("https://api.mmoui.com/search?page=1", SearchPath)
FileListRequest ==
  Request("https://api.mmoui.com/v4/game/WOW/filelist.json", <<"/", "v", "4", "/", "f", "i", "l", "e", "l", "i", "s", "t", ".", "j", "s", "o", "n">>)
PageRequest ==
  Request("https://www.wowinterface.com/downloads/info1.html", <<"/", "d", "/", "i", "n", "f", "o", "1", ".", "h", "t", "m", "l">>)
ZipRequest == Request("https://cdn.wowinterface.com/a.zip", <<"/", "a", ".", "z", "i", "p">>)

\* hex.EncodeToString(md5.Sum(url)), cut down to two digits: different URLs
\* have different digests.
MD5Hex(url) ==
  CASE url = SearchRequest.url -> <<"9", "f">>
    [] url = FileListRequest.url -> <<"0", "c">>
    [] url = PageRequest.url -> <<"5", "e">>
    [] url = ZipRequest.url -> <<"b", "1">>

\* FileCachingTransport.makeCacheKey
makeCacheKey(req) ==
  IF req.path = SearchPath THEN MD5Hex(req.url) \o SearchSuffix
  ELSE IF Ext(req.path) = ZipExt THEN MD5Hex(req.url) \o ZipSuffix
  ELSE IF Base(req.path) = FileListName THEN MD5Hex(req.url) \o FileListSuffix
  ELSE MD5Hex(req.url)

\* config.Directory
CacheDirectory == <<"c", "a", "c", "h", "e">>

\* FileCachingTransport.cachePath
cachePath(cacheKey) == CacheDirectory \o <<"/">> \o cacheKey

\* An *http.Response: status and body.
HTTPResponse(status, body) == [status |-> status, body |-> body]

\* httputil.DumpResponse: the response on the wire, status line then body.
DumpResponse(resp) == <<"HTTP/1.1", resp.status, resp.body>>

\* http.ReadResponse: the response parsed back, or an error on a file that
\* is not a whole dumped response.
ReadResponse(data) ==
  IF Len(data) = 3
  THEN [err |-> FALSE, resp |-> HTTPResponse(data[2], data[3])]
  ELSE [err |-> TRUE, resp |-> HTTPResponse(0, 0)]

\* A file of the cache directory: last-modified time (hours) and content.
File(modTime, data) == [exists |-> TRUE, modTime |-> modTime, data |-> data]
NoFile == [exists |-> FALSE, modTime |-> 0, data |-> <<>>]

\* t.runStart = time.Now() at construction, in hours.
runStart == 48

\* Mutant: the resp.StatusCode >= 200 test alone.
CacheableNoUpperBound(resp) == resp.status >= 200

\* resp.StatusCode >= 200 && resp.StatusCode < 300
Cacheable(resp) == resp.status >= 200 /\ resp.status < 300

\* ----------------------------------------------------------------- strings
\* A string that is compared is a sequence of character codes; Go's < on
\* strings is the lexicographic order of the bytes.
RECURSIVE StrLess(_, _)
StrLess(a, b) ==
  IF b = <<>> THEN FALSE
  ELSE IF a = <<>> THEN TRUE
  ELSE IF a[1] # b[1] THEN a[1] < b[1]
  ELSE StrLess(Tail(a), Tail(b))

\* --------------------------------------------------------------- data model
\* types.GameTrack, in the order of types.AllGameTracks
AllGameTracks == <<"retail", "classic", "classic-tbc", "classic-wotlk",
                   "classic-cata", "classic-mists">>
RetailTrack == "retail"
ClassicTrack == "classic"

\* types.AddonData: one partial observation. Name, Label, Description and URL
\* are "" when absent; the dates and the download count are Nil when absent.
AddonData(sid, filename, name, url, updated, tracks) ==
  [Source |-> WowInterfaceSource, SourceID |-> sid, Filename |-> filename,
   Name |-> name, Label |-> name, Description |-> "", URL |-> url,
   UpdatedDate |-> updated, CreatedDate |-> Nil, DownloadCount |-> Nil,
   GameTrackSet |-> tracks, TagSet |-> {}]

\* Source ids of the modelled site: "10" and "2" (so that string order and
\* numeric order differ) and the empty id.
Sid10 == <<1, 0>>
Sid2 == <<2>>
EmptySid == <<>>
SourceIDs == {Sid10, Sid2, EmptySid}

\* The records the Parser returns for the page behind a URL (Parse is a pure
\* function of the URL and the content, and the kind of URL decides the kind
\* of record): URL 1 is the API file list, URL 2 an HTML detail page, URL 3 an
\* API detail page; any further URL is a page without records.
PageRecords(url) ==
  CASE url = 1 -> << AddonData(EmptySid, "api-filelist-v4.json", "anon", "u0", 3, {}),
                     AddonData(Sid2, "api-filelist-v4.json", "two", "u2", 3, {RetailTrack}) >>
    [] url = 2 -> << AddonData(Sid10, "web-detail.json", "ten", "u10", Nil, {ClassicTrack}) >>
    [] url = 3 -> << AddonData(Sid10, "api-detail-v4.json", "", "", 1, {}) >>
    [] OTHER -> << >>

\* ------------------------------------------------------------ merge engine
\* Builder.getFilePriority
getFilePriority(filename) ==
  CASE filename = "listing.json" -> 0
    [] filename = "web-detail.json" -> 1
    [] filename = "api-detail.json" -> 2
    [] filename = "api-filelist.json" -> 2
    [] OTHER -> 0

\* The orders sort.Slice may leave the list in: every permutation of it that
\* is ascending in priority (sort.Slice is not stable).
IndexPerms(n) == {p \in [1..n -> 1..n] : \A i, j \in 1..n : i # j => p[i] # p[j]}
PrioritySortings(list) ==
  { [i \in 1..Len(list) |-> list[p[i]]] : p \in
      { q \in IndexPerms(Len(list)) :
          \A i, j \in 1..Len(list) :
            i < j => getFilePriority(list[q[i]].Filename)
                       <= getFilePriority(list[q[j]].Filename) } }

\* Builder.gameTrackSetToSortedSlice
RECURSIVE TracksFrom(_, _)
TracksFrom(i, trackSet) ==
  IF i > Len(AllGameTracks) THEN <<>>
  ELSE (IF AllGameTracks[i] \in trackSet THEN <<AllGameTracks[i]>> ELSE <<>>)
       \o TracksFrom(i + 1, trackSet)
\* Mutant: the classic track is lost in the conversion.
gameTrackSetWithoutClassic(trackSet) == TracksFrom(1, trackSet \ {ClassicTrack})

gameTrackSetToSortedSlice(trackSet) == TracksFrom(1, trackSet)

\* Builder.stringSetToSortedSlice
RECURSIVE stringSetToSortedSlice(_)
stringSetToSortedSlice(stringSet) ==
  IF stringSet = {} THEN <<>>
  ELSE LET m == CHOOSE x \in stringSet : \A y \in stringSet \ {x} : StrLess(x, y)
       IN <<m>> \o stringSetToSortedSlice(stringSet \ {m})

\* Mutant: every scalar field of the later record replaces the value so far,
\* whether the record carries a value or not.
MergeOneBlanking(merged, data) ==
  [merged EXCEPT
     !.Name = data.Name, !.Label = data.Label,
     !.Description = data.Description, !.URL = data.URL,
     !.UpdatedDate = IF data.UpdatedDate # Nil THEN data.UpdatedDate ELSE 0,
     !.CreatedDate = data.CreatedDate,
     !.DownloadCount = data.DownloadCount,
     !.GameTrackSet = @ \cup data.GameTrackSet,
     !.TagSet = @ \cup data.TagSet]

\* One step of the fold in MergeAddonData: data merged into the record so far.
MergeOne(merged, data) ==
  [merged EXCEPT
     !.Name = IF data.Name # "" THEN data.Name ELSE @,
     !.Label = IF data.Label # "" THEN data.Label ELSE @,
     !.Description = IF data.Description # "" THEN data.Description ELSE @,
     !.URL = IF data.URL # "" THEN data.URL ELSE @,
     !.UpdatedDate = IF data.UpdatedDate # Nil /\ data.UpdatedDate # 0
                     THEN data.UpdatedDate ELSE @,
     !.CreatedDate = IF data.CreatedDate # Nil /\ data.CreatedDate # 0
                     THEN data.CreatedDate ELSE @,
     !.DownloadCount = IF data.DownloadCount # Nil /\ data.DownloadCount > 0
                       THEN data.DownloadCount ELSE @,
     !.GameTrackSet = @ \cup data.GameTrackSet,
     !.TagSet = @ \cup data.TagSet]

RECURSIVE MergeFold(_, _)
MergeFold(merged, list) ==
  IF list = <<>> THEN merged
  ELSE MergeFold(MergeOne(merged, Head(list)), Tail(list))

\* MergeAddonData returns no record (nil, nil).
Absent == [absent |-> TRUE]

\* Mutant: no record is dropped.
DropNever(merged) == FALSE

\* The record is dropped when its updated date is the zero time.
DropUndated(merged) == merged.UpdatedDate = 0

\* Mutant: an empty track list is returned as it is.
GameTrackListAsMerged(tracks) == tracks

\* if len(merged.GameTrackList) == 0 { ... = []types.GameTrack{types.RetailTrack} }
GameTrackListOrDefault(tracks) == IF tracks = <<>> THEN <<RetailTrack>> ELSE tracks

\* Builder.MergeAddonData after its sort.Slice left the list as `sorted`.
MergeSorted(sorted) ==
  IF sorted = <<>> THEN Absent
  ELSE
    LET merged == MergeFold(
          [Source |-> sorted[1].Source, SourceID |-> sorted[1].SourceID,
           Name |-> "", Label |-> "", Description |-> "", URL |-> "",
           UpdatedDate |-> 0, CreatedDate |-> Nil, DownloadCount |-> Nil,
           GameTrackSet |-> {}, TagSet |-> {}], sorted)
        tracks == gameTrackSetToSortedSlice(merged.GameTrackSet)
    IN IF DropUndated(merged) THEN Absent
       ELSE [Source |-> merged.Source, SourceID |-> merged.SourceID,
             Name |-> merged.Name, Label |-> merged.Label,
             Description |-> merged.Description, URL |-> merged.URL,
             UpdatedDate |-> merged.UpdatedDate, CreatedDate |-> merged.CreatedDate,
             DownloadCount |-> merged.DownloadCount,
             GameTrackList |-> GameTrackListOrDefault(tracks),
             TagList |-> stringSetToSortedSlice(merged.TagSet)]

\* Builder.MergeAddonData: the results it can return for addonDataList.
MergeAddonData(addonDataList) ==
  {MergeSorted(sorted) : sorted \in PrioritySortings(addonDataList)}

\* -------------------------------------------------------- catalogue builder
\* sort.Slice(filteredAddons, SourceID <): insertion of x into a sorted list.
RECURSIVE InsertBySourceID(_, _)
InsertBySourceID(x, sorted) ==
  IF sorted = <<>> THEN <<x>>
  ELSE IF StrLess(x.SourceID, Head(sorted).SourceID) THEN <<x>> \o sorted
  ELSE <<Head(sorted)>> \o InsertBySourceID(x, Tail(sorted))

\* Mutant: the list is left in the order it was given.
SortBySourceIDSkipped(addons) == addons

RECURSIVE SortBySourceID(_)
SortBySourceID(addons) ==
  IF addons = <<>> THEN <<>>
  ELSE InsertBySourceID(addons[Len(addons)], SortBySourceID(SubSeq(addons, 1, Len(addons) - 1)))

\* The elements of seq that satisfy keep, in order (a loop of appends).
RECURSIVE FilterSeq(_, _)
FilterSeq(seq, keep) ==
  IF seq = <<>> THEN <<>>
  ELSE (IF Head(seq) \in keep THEN <<Head(seq)>> ELSE <<>>) \o FilterSeq(Tail(seq), keep)

SeqRange(seq) == {seq[i] : i \in 1..Len(seq)}

\* Builder.currentDateStamp: the day of the run.
Today == "today"

\* Mutant: the source list is ignored.
BuildCatalogueUnfiltered(addons, sources) ==
  [Version |-> 2, Datestamp |-> Today, Total |-> Len(addons),
   AddonSummaryList |-> SortBySourceID(addons)]

\* Builder.BuildCatalogue
BuildCatalogue(addons, sources) ==
  LET filteredAddons ==
        IF Len(sources) > 0
        THEN FilterSeq(addons, {a \in SeqRange(addons) : a.Source \in SeqRange(sources)})
        ELSE addons
      sorted == SortBySourceID(filteredAddons)
  IN [Version |-> 2, Datestamp |-> Today, Total |-> Len(sorted),
      AddonSummaryList |-> sorted]

\* Mutant: a record updated at the cutoff counts as maintained.
UpdatedNotBefore(addon, cutoffDate) == addon.UpdatedDate >= cutoffDate

\* time.Time.After(cutoffDate)
UpdatedAfter(addon, cutoffDate) == addon.UpdatedDate > cutoffDate

\* Builder.ShortenCatalogue
ShortenCatalogue(catalogue, cutoffDate) ==
  LET maintainedAddons ==
        FilterSeq(catalogue.AddonSummaryList,
                  {a \in SeqRange(catalogue.AddonSummaryList) : UpdatedAfter(a, cutoffDate)})
  IN [Version |-> catalogue.Version, Datestamp |-> catalogue.Datestamp,
      Total |-> Len(maintainedAddons), AddonSummaryList |-> maintainedAddons]

\* Mutant: the filtered catalogue keeps the total of the catalogue it was given.
FilterCatalogueStaleTotal(cat, source) ==
  LET filteredAddons ==
        FilterSeq(cat.AddonSummaryList,
                  {a \in SeqRange(cat.AddonSummaryList) : a.Source = source})
  IN [Version |-> cat.Version, Datestamp |-> cat.Datestamp,
      Total |-> cat.Total, AddonSummaryList |-> filteredAddons]

\* Builder.FilterCatalogue with Scrape's predicate addon.Source == source
FilterCatalogue(catalogue, source) ==
  LET filteredAddons ==
        FilterSeq(catalogue.AddonSummaryList,
                  {a \in SeqRange(catalogue.AddonSummaryList) : a.Source = source})
  IN [Version |-> catalogue.Version, Datestamp |-> catalogue.Datestamp,
      Total |-> Len(filteredAddons), AddonSummaryList |-> filteredAddons]

\* ------------------------------------------------------------ GitHub source
\* One CSV row: name, full_name (a compared string), url, and last_updated as
\* its text kind ("" empty, "rfc3339" well-formed, "garbage") with the time a
\* well-formed text denotes; flavors is the list of flavor names.
CSVRow(name, fullName, url, kind, time, flavors) ==
  [name |-> name, full_name |-> fullName, url |-> url,
   last_updated |-> [kind |-> kind, time |-> time], flavors |-> flavors]

\* github.guessGameTrack
guessGameTrack(flavor) ==
  CASE flavor \in {"mainline", "retail"} -> "retail"
    [] flavor \in {"classic", "vanilla"} -> "classic"
    [] flavor \in {"bcc", "tbc"} -> "classic-tbc"
    [] flavor \in {"wrath", "wotlk"} -> "classic-wotlk"
    [] flavor \in {"cata", "cataclysm"} -> "classic-cata"
    [] flavor \in {"mists", "mop"} -> "classic-mists"
    [] OTHER -> ""

\* The track names in alphabetical order (sort.Slice on their strings).
AlphabeticalTracks == <<"classic", "classic-cata", "classic-mists",
                        "classic-tbc", "classic-wotlk", "retail">>

RECURSIVE GuessAll(_)
GuessAll(flavors) ==
  IF flavors = <<>> THEN <<>>
  ELSE (IF guessGameTrack(Head(flavors)) # "" THEN <<guessGameTrack(Head(flavors))>> ELSE <<>>)
       \o GuessAll(Tail(flavors))

RECURSIVE SortTracksFrom(_, _)
SortTracksFrom(i, tracks) ==
  IF i > Len(AlphabeticalTracks) THEN <<>>
  ELSE SelectSeq(tracks, LAMBDA t : t = AlphabeticalTracks[i]) \o SortTracksFrom(i + 1, tracks)

\* slug.Make(name) with "_" replaced by "-": letters are lower-cased, and a
\* name without letters or digits slugifies to the empty string.
Slugify(name) ==
  CASE name = "Foo_Bar" -> "foo-bar"
    [] name = "Old" -> "old"
    [] name = "Bad" -> "bad"
    [] OTHER -> ""

\* parseCSVRow fails: a required field is empty or last_updated is malformed.
RowError(row) ==
  \/ row.name = ""
  \/ row.full_name = <<>>
  \/ row.url = ""
  \/ (row.last_updated.kind # "" /\ row.last_updated.kind # "rfc3339")

\* The updated date parseCSVRow gives the addon: the zero time when the field
\* is empty, otherwise the parsed time.
RowUpdatedDate(row) ==
  IF row.last_updated.kind # "" THEN row.last_updated.time ELSE 0

\* github.Parser.parseCSVRow for a row without RowError
parseCSVRow(row) ==
  [Source |-> GitHubSource, SourceID |-> row.full_name,
   Name |-> Slugify(row.name), Label |-> row.name, Description |-> "",
   URL |-> row.url, UpdatedDate |-> RowUpdatedDate(row), CreatedDate |-> Nil,
   DownloadCount |-> 0,
   GameTrackList |-> SortTracksFrom(1, GuessAll(row.flavors)),
   TagList |-> <<>>]

\* github.Parser.ParseCSV: invalid rows are skipped.
RECURSIVE ParseCSV(_)
ParseCSV(rows) ==
  IF rows = <<>> THEN <<>>
  ELSE (IF RowError(Head(rows)) THEN <<>> ELSE <<parseCSVRow(Head(rows))>>)
       \o ParseCSV(Tail(rows))

\* full_name values of the modelled feed: "a/b" and "c/d" as code sequences.
RepoAB == <<7, 1>>
RepoCD == <<7, 2>>

\* The rows the modelled feed can hold.
CSVRows ==
  { CSVRow("Foo_Bar", RepoAB, "https://a/b", "rfc3339", 3, <<"mainline", "classic">>),
    CSVRow("Old", RepoCD, "https://c/d", "", 0, <<>>),
    CSVRow("Bad", RepoCD, "https://c/d", "garbage", 0, <<"wrath">>) }

\* --------------------------------------------------- catalogue file, validation
\* json.MarshalIndent of one types.Addon: a time.Time is written as an RFC 3339
\* text (the zero time too); a nil created-date or download-count is omitted.
MarshalAddon(a) ==
  [source |-> a.Source, source_id |-> a.SourceID, name |-> a.Name,
   label |-> a.Label, url |-> a.URL,
   updated_date |-> [kind |-> "rfc3339", time |-> a.UpdatedDate],
   created_date |-> a.CreatedDate, download_count |-> a.DownloadCount,
   game_track_list |-> a.GameTrackList]

\* json.MarshalIndent of a types.Catalogue: a nil slice (no append ever made)
\* is written as null, not as [].
MarshalCatalogue(catalogue) ==
  [version |-> catalogue.Version, datestamp |-> catalogue.Datestamp,
   total |-> catalogue.Total,
   list_is_null |-> (catalogue.AddonSummaryList = <<>>),
   list |-> [i \in 1..Len(catalogue.AddonSummaryList) |->
               MarshalAddon(catalogue.AddonSummaryList[i])]]

\* validation.validateAddon
validateAddon(addon) ==
  /\ addon.source \in {WowInterfaceSource, GitHubSource}
  /\ addon.source_id # <<>>
  /\ addon.name # ""
  /\ addon.label # ""
  /\ addon.updated_date.kind = "rfc3339"
  /\ addon.url # ""
  /\ \A i \in 1..Len(addon.game_track_list) :
       addon.game_track_list[i] \in SeqRange(AllGameTracks)
  /\ (addon.download_count # Nil => addon.download_count >= 0)

\* validation.SimpleValidateCatalogue on the file's JSON
SimpleValidateCatalogue(json) ==
  /\ json.version >= 1
  /\ json.datestamp = Today
  /\ json.total >= 0
  /\ ~json.list_is_null
  /\ json.total = Len(json.list)
  /\ \A i \in 1..Len(json.list) : validateAddon(json.list[i])

\* ------------------------------------------------------------------- state
VARIABLES
  maxWorkers,     \* config.MaxWorkers
  sources,        \* config.Sources
  mainpc,         \* position of the goroutine running Scrape
  srcIdx,         \* Scrape's index into config.Sources while scraping
  widx,           \* Scrape's index into config.Sources while writing
  allAddons,      \* Scrape's allAddons
  fullCatalogue,  \* Scrape's fullCatalogue
  written,        \* the catalogue files written so far, in order
  scrapeResult,   \* "running", or what Scrape returned: "ok" / "error"
  crawlResult,    \* "none", or the error scrapeWowInterface returned ("nil")
  urlChan,        \* buffered frontier channel: the queued URLs
  chanClosed,     \* close(urlChan) has happened
  processedURLs,  \* set of URLs marked visited
  addonDataMap,   \* source id -> list of accumulated records
  mu,             \* holder of the shared mutex, NoWorker when free
  inFlight,       \* atomic counter of URLs being processed
  wpc,            \* worker -> position in the pull loop / processURL
  wurl,           \* worker -> URL it dequeued
  wurls,          \* worker -> DownloadURLs still to enqueue
  mpc,            \* position of the completion monitor
  queueDepth,     \* the monitor's sample of len(urlChan)
  panicked,       \* a goroutine panicked: the process is gone
  cancelled,      \* ctx has been cancelled
  fetched,        \* URLs for which a fetch was made (history)
  refetched,      \* URLs for which a second fetch was made (history)
  discovered,     \* unvisited URLs returned by successful parses (history)
  failedURLs,     \* URLs whose processURL returned an error (history)
  catAddons,      \* the addons given to a BuildCatalogue call
  catalogue,      \* the catalogue the last builder call returned
  catOps,         \* the builder calls made so far, in order
  mergeRecords,   \* the partial records of one identity
  mergeResults,   \* what the MergeAddonData calls so far returned
  retryOuts,      \* the outcome client.Get gives on each attempt
  retryCtxDone,   \* the ctx given to WithRetry is done
  retryPc,        \* position of a WithRetry call
  retryAttempt,   \* WithRetry's attempt counter
  retryLog,       \* the outcomes of the attempts made so far
  retryLastErr,   \* WithRetry's lastErr: the attempt whose error it holds, 0 when nil
  retryMaxAttempts, \* config.MaxAttempts of the WithRetry call
  retryResult,    \* what WithRetry returned: status and error
  delayCall,      \* the arguments of a getRetryDelay call
  delayResult,    \* the delay the call returned, Nil before it
  cacheFiles,     \* the cache directory: cache key -> file
  cacheNow,       \* the wall clock, in hours
  cacheLog        \* the RoundTrip calls of the run, in order

cfgVars == <<maxWorkers, sources>>
mainVars == <<mainpc, srcIdx, widx, allAddons, fullCatalogue, written,
              scrapeResult, crawlResult>>
chanVars == <<urlChan, chanClosed>>
lockedVars == <<processedURLs, addonDataMap, mu>>
workerVars == <<wpc, wurl, wurls>>
monitorVars == <<mpc, queueDepth>>
envVars == <<panicked, cancelled>>
histVars == <<fetched, refetched, discovered, failedURLs>>

catVars == <<catAddons, catalogue, catOps>>
mergeVars == <<mergeRecords, mergeResults>>
retryVars == <<retryOuts, retryCtxDone, retryPc, retryAttempt, retryLog,
              retryLastErr, retryMaxAttempts, retryResult>>
\* The state of direct calls of the builder, the merge and the retry policy.
delayVars == <<delayCall, delayResult>>
cacheVars == <<cacheFiles, cacheNow, cacheLog>>
callVars == <<catVars, mergeVars, retryVars, delayVars, cacheVars>>
\* The state of a Scrape run.
scrapeVars == <<cfgVars, mainVars, chanVars, lockedVars, inFlight, workerVars,
                monitorVars, envVars, histVars>>

vars == <<scrapeVars, callVars>>

\* The source lists given with --source.
SourceLists == { <<WowInterfaceSource>>, <<GitHubSource>>,
                 <<WowInterfaceSource, GitHubSource>> }

EmptyCatalogue == [Version |-> 2, Datestamp |-> Today, Total |-> 0,
                   AddonSummaryList |-> <<>>]

ScrapeInit ==
  /\ maxWorkers \in 1..MaxWorkersBound
  /\ sources \in SourceLists
  /\ mainpc = "dispatch"
  /\ srcIdx = 1
  /\ widx = 1
  /\ allAddons = <<>>
  /\ fullCatalogue = EmptyCatalogue
  /\ written = <<>>
  /\ scrapeResult = "running"
  /\ crawlResult = "none"
  /\ urlChan = <<>>
  /\ chanClosed = FALSE
  /\ processedURLs = {}
  /\ addonDataMap = [s \in SourceIDs |-> <<>>]
  /\ mu = NoWorker
  /\ inFlight = 0
  /\ wpc = [w \in Workers |-> "idle"]
  /\ wurl = [w \in Workers |-> 0]
  /\ wurls = [w \in Workers |-> <<>>]
  /\ mpc = "idle"
  /\ queueDepth = 0
  /\ panicked = FALSE
  /\ cancelled = FALSE
  /\ fetched = {}
  /\ refetched = {}
  /\ discovered = {}
  /\ failedURLs = {}

\* No builder call has been made.
CatIdle ==
  /\ catAddons = <<>>
  /\ catalogue = EmptyCatalogue
  /\ catOps = <<>>

\* No MergeAddonData call has been made.
MergeIdle ==
  /\ mergeRecords = <<>>
  /\ mergeResults = {}

NoResult == [status |-> 0, err |-> "none"]

\* No WithRetry call has been made.
RetryIdle ==
  /\ retryOuts = <<>>
  /\ retryCtxDone = FALSE
  /\ retryPc = "idle"
  /\ retryAttempt = 0
  /\ retryLog = <<>>
  /\ retryLastErr = 0
  /\ retryMaxAttempts = MaxAttempts
  /\ retryResult = NoResult

\* No getRetryDelay call has been made.
NoDelayCall == [resp |-> NilResponse, attempt |-> 0, config |-> DefaultConfig]

DelayIdle ==
  /\ delayCall = NoDelayCall
  /\ delayResult = Nil

\* No caching transport has been set up.
CacheIdle ==
  /\ cacheFiles = <<>>
  /\ cacheNow = 0
  /\ cacheLog = <<>>

Init == ScrapeInit /\ CatIdle /\ MergeIdle /\ RetryIdle /\ DelayIdle /\ CacheIdle

Active == 1..maxWorkers

\* Every action is a step of the running process: after a panic none is left.
Running == ~panicked

\* ------------------------------------------------------------ Scrape: sources
\* for _, source := range config.Sources { switch source {
DispatchWowInterface ==
  /\ Running /\ mainpc = "dispatch"
  /\ srcIdx <= Len(sources) /\ sources[srcIdx] = WowInterfaceSource
  /\ mainpc' = "start"
  /\ UNCHANGED <<callVars, cfgVars, srcIdx, widx, allAddons, fullCatalogue, written,
                 scrapeResult, crawlResult, chanVars, lockedVars, inFlight,
                 workerVars, monitorVars, envVars, histVars>>

DispatchGitHub ==
  /\ Running /\ mainpc = "dispatch"
  /\ srcIdx <= Len(sources) /\ sources[srcIdx] = GitHubSource
  /\ mainpc' = "github"
  /\ UNCHANGED <<callVars, cfgVars, srcIdx, widx, allAddons, fullCatalogue, written,
                 scrapeResult, crawlResult, chanVars, lockedVars, inFlight,
                 workerVars, monitorVars, envVars, histVars>>

DispatchDone ==
  /\ Running /\ mainpc = "dispatch"
  /\ srcIdx > Len(sources)
  /\ mainpc' = "build"
  /\ UNCHANGED <<callVars, cfgVars, srcIdx, widx, allAddons, fullCatalogue, written,
                 scrapeResult, crawlResult, chanVars, lockedVars, inFlight,
                 workerVars, monitorVars, envVars, histVars>>

\* scrapeGitHub: the download fails (or is not 200) and Scrape returns the error
GitHubFail ==
  /\ Running /\ mainpc = "github"
  /\ scrapeResult' = "error"
  /\ mainpc' = "returned"
  /\ UNCHANGED <<callVars, cfgVars, srcIdx, widx, allAddons, fullCatalogue, written,
                 crawlResult, chanVars, lockedVars, inFlight, workerVars,
                 monitorVars, envVars, histVars>>

\* scrapeGitHub: the feed is parsed; allAddons = append(allAddons, addons...)
GitHubOK ==
  /\ Running /\ mainpc = "github"
  /\ \E rows \in SeqsUpTo(CSVRows, MaxRows) :
       allAddons' = allAddons \o ParseCSV(rows)
  /\ srcIdx' = srcIdx + 1
  /\ mainpc' = "dispatch"
  /\ UNCHANGED <<callVars, cfgVars, widx, fullCatalogue, written, scrapeResult,
                 crawlResult, chanVars, lockedVars, inFlight, workerVars,
                 monitorVars, envVars, histVars>>

\* ------------------------------------------------ scrapeWowInterface (main)
\* for i := 0; i < maxWorkers; i++ { wg.Add(1); go func() {...}() }
StartWorkers ==
  /\ Running /\ mainpc = "start"
  /\ wpc' = [w \in Workers |-> IF w \in Active THEN "recv" ELSE "idle"]
  /\ mainpc' = "seed"
  /\ UNCHANGED <<callVars, cfgVars, srcIdx, widx, allAddons, fullCatalogue, written,
                 scrapeResult, crawlResult, chanVars, lockedVars, inFlight,
                 wurl, wurls, monitorVars, envVars, histVars>>

\* for _, url := range wowi.StartingURLs(apiVersion) { urlChan <- url }
Seed ==
  /\ Running /\ mainpc = "seed"
  /\ Len(urlChan) + Len(StartingURLs) <= ChanCap
  /\ urlChan' = urlChan \o StartingURLs
  /\ mainpc' = "monitor"
  /\ UNCHANGED <<callVars, cfgVars, srcIdx, widx, allAddons, fullCatalogue, written,
                 scrapeResult, crawlResult, chanClosed, lockedVars, inFlight,
                 workerVars, monitorVars, envVars, histVars>>

\* go func() { ticker ... }() : the completion monitor starts
StartMonitor ==
  /\ Running /\ mainpc = "monitor"
  /\ mpc' = "tick"
  /\ mainpc' = "wait"
  /\ UNCHANGED <<callVars, cfgVars, srcIdx, widx, allAddons, fullCatalogue, written,
                 scrapeResult, crawlResult, chanVars, lockedVars, inFlight,
                 workerVars, queueDepth, envVars, histVars>>

\* Mutant: the wait ends with the first worker that is done.
WaitAnyWorker == \E w \in Active : wpc[w] = "done"

\* wg.Wait(): every started worker has run its deferred wg.Done()
WaitWorkersGuard == \A w \in Active : wpc[w] = "done"

WaitWorkers ==
  /\ Running /\ mainpc = "wait"
  /\ WaitWorkersGuard
  /\ mainpc' = "merge"
  /\ UNCHANGED <<callVars, cfgVars, srcIdx, widx, allAddons, fullCatalogue, written,
                 scrapeResult, crawlResult, chanVars, lockedVars, inFlight,
                 workerVars, monitorVars, envVars, histVars>>

\* for sourceID, dataList := range addonDataMap { MergeAddonData(dataList) }:
\* the lists of addons the loop can build (map iteration order is arbitrary).
MergedAddonSeqs(map) ==
  LET ids == {s \in DOMAIN map : map[s] # <<>>}
      n == Cardinality(ids)
      orders == {o \in [1..n -> ids] : \A i, j \in 1..n : i # j => o[i] # o[j]}
      results == UNION {MergeAddonData(map[s]) : s \in ids}
      picks == {f \in [ids -> results] : \A s \in ids : f[s] \in MergeAddonData(map[s])}
  IN { SelectSeq([i \in 1..n |-> f[o[i]]], LAMBDA a : a # Absent) :
         o \in orders, f \in picks }

\* mu.Lock(); merge loop; mu.Unlock(); return addons, nil - and back in Scrape
\* allAddons = append(allAddons, addons...)
MergeAndReturn ==
  /\ Running /\ mainpc = "merge"
  /\ mu = NoWorker
  /\ \E addons \in MergedAddonSeqs(addonDataMap) :
       allAddons' = allAddons \o addons
  /\ crawlResult' = "nil"
  /\ srcIdx' = srcIdx + 1
  /\ mainpc' = "dispatch"
  /\ UNCHANGED <<callVars, cfgVars, widx, fullCatalogue, written, scrapeResult, chanVars,
                 lockedVars, inFlight, workerVars, monitorVars, envVars, histVars>>

\* ------------------------------------------------------ completion monitor
\* <-ticker.C; queueDepth := len(urlChan)
MonitorSample ==
  /\ Running /\ mpc = "tick"
  /\ queueDepth' = Len(urlChan)
  /\ mpc' = "load"
  /\ UNCHANGED <<callVars, cfgVars, mainVars, chanVars, lockedVars, inFlight, workerVars,
                 envVars, histVars>>

\* processing := inFlight.Load(); if queueDepth == 0 && processing == 0
MonitorDone(depth, processing) == depth = 0 /\ processing = 0

\* ... { close(urlChan); return }
MonitorClose ==
  /\ Running /\ mpc = "load"
  /\ MonitorDone(queueDepth, inFlight)
  /\ chanClosed' = TRUE
  /\ mpc' = "done"
  /\ queueDepth' = 0
  /\ UNCHANGED <<callVars, cfgVars, mainVars, urlChan, lockedVars, inFlight, workerVars,
                 envVars, histVars>>

\* ... otherwise wait for the next tick
MonitorAgain ==
  /\ Running /\ mpc = "load"
  /\ ~MonitorDone(queueDepth, inFlight)
  /\ mpc' = "tick"
  /\ queueDepth' = 0
  /\ UNCHANGED <<callVars, cfgVars, mainVars, chanVars, lockedVars, inFlight, workerVars,
                 envVars, histVars>>

\* ------------------------------------------------------------------ workers
\* for url := range urlChan: a queued URL is taken (also after the close)
Recv(w) ==
  /\ Running /\ wpc[w] = "recv"
  /\ urlChan # <<>>
  /\ wurl' = [wurl EXCEPT ![w] = Head(urlChan)]
  /\ urlChan' = Tail(urlChan)
  /\ wpc' = [wpc EXCEPT ![w] = "inc"]
  /\ UNCHANGED <<callVars, cfgVars, mainVars, chanClosed, lockedVars, inFlight, wurls,
                 monitorVars, envVars, histVars>>

\* for url := range urlChan: the channel is closed and drained; wg.Done()
Exit(w) ==
  /\ Running /\ wpc[w] = "recv"
  /\ urlChan = <<>> /\ chanClosed
  /\ wpc' = [wpc EXCEPT ![w] = "done"]
  /\ UNCHANGED <<callVars, cfgVars, mainVars, chanVars, lockedVars, inFlight, wurl, wurls,
                 monitorVars, envVars, histVars>>

\* inFlight.Add(1)
IncInFlight(w) ==
  /\ Running /\ wpc[w] = "inc"
  /\ inFlight' = inFlight + 1
  /\ wpc' = [wpc EXCEPT ![w] = "claim"]
  /\ UNCHANGED <<callVars, cfgVars, mainVars, chanVars, lockedVars, wurl, wurls,
                 monitorVars, envVars, histVars>>

\* Mutant: the visited check is lost.
AlreadyProcessedNever(url) == FALSE

\* processURL: if processedURLs[url]
AlreadyProcessed(url) == url \in processedURLs

\* processURL: mu.Lock(); if processedURLs[url] { mu.Unlock(); return nil }
ClaimSkip(w) ==
  /\ Running /\ wpc[w] = "claim"
  /\ mu = NoWorker
  /\ AlreadyProcessed(wurl[w])
  /\ wpc' = [wpc EXCEPT ![w] = "dec"]
  /\ UNCHANGED <<callVars, cfgVars, mainVars, chanVars, lockedVars, inFlight, wurl, wurls,
                 monitorVars, envVars, histVars>>

\* processURL: mu.Lock(); processedURLs[url] = true; mu.Unlock()
Claim(w) ==
  /\ Running /\ wpc[w] = "claim"
  /\ mu = NoWorker
  /\ ~AlreadyProcessed(wurl[w])
  /\ processedURLs' = processedURLs \cup {wurl[w]}
  /\ wpc' = [wpc EXCEPT ![w] = "fetch"]
  /\ UNCHANGED <<callVars, cfgVars, mainVars, chanVars, addonDataMap, mu, inFlight, wurl,
                 wurls, monitorVars, envVars, histVars>>

\* The outcomes retry.WithRetry can hand to processURL.
FetchResults == IF cancelled THEN FetchResultsCancelled ELSE FetchResultsLive

\* History: retry.WithRetry is called for url.
RecordFetch(url) ==
  /\ fetched' = fetched \cup {url}
  /\ refetched' = IF url \in fetched THEN refetched \cup {url} ELSE refetched

\* processURL returns an error: err != nil, or resp.StatusCode != 200
FetchFailed(r) == r.err # "nil" \/ r.status # 200

\* Mutant: the worker returns when processURL returns an error.
OnProcessErrorExit == "done"

\* Mutant: processURL goes on to its recording section after an error.
OnProcessErrorRecord == "lock"

\* The worker loop after processURL returned an error: it is logged and the
\* loop goes on with inFlight.Add(-1).
OnProcessError == "dec"

\* processURL: the download fails after retries or ends with a status not 200
FetchFail(w) ==
  /\ Running /\ wpc[w] = "fetch"
  /\ \E r \in FetchResults : FetchFailed(r)
  /\ RecordFetch(wurl[w])
  /\ failedURLs' = failedURLs \cup {wurl[w]}
  /\ wpc' = [wpc EXCEPT ![w] = OnProcessError]
  /\ UNCHANGED <<callVars, cfgVars, mainVars, chanVars, lockedVars, inFlight, wurl, wurls,
                 monitorVars, envVars, discovered>>

\* processURL: the download succeeds and parser.Parse returns an error
ParseFail(w) ==
  /\ Running /\ wpc[w] = "fetch"
  /\ \E r \in FetchResults : ~FetchFailed(r)
  /\ RecordFetch(wurl[w])
  /\ failedURLs' = failedURLs \cup {wurl[w]}
  /\ wpc' = [wpc EXCEPT ![w] = OnProcessError]
  /\ UNCHANGED <<callVars, cfgVars, mainVars, chanVars, lockedVars, inFlight, wurl, wurls,
                 monitorVars, envVars, discovered>>

\* processURL: the download succeeds and parser.Parse returns a result
FetchOK(w) ==
  /\ Running /\ wpc[w] = "fetch"
  /\ \E r \in FetchResults : ~FetchFailed(r)
  /\ \E urls \in SeqsUpTo(URLs, MaxLinks) :
       /\ wurls' = [wurls EXCEPT ![w] = urls]
       /\ discovered' = discovered \cup (SeqRange(urls) \ processedURLs)
  /\ RecordFetch(wurl[w])
  /\ wpc' = [wpc EXCEPT ![w] = "lock"]
  /\ UNCHANGED <<callVars, cfgVars, mainVars, chanVars, lockedVars, inFlight, wurl,
                 monitorVars, envVars, failedURLs>>

\* processURL: mu.Lock(); defer mu.Unlock()
LockResults(w) ==
  /\ Running /\ wpc[w] = "lock"
  /\ mu = NoWorker
  /\ mu' = w
  /\ wpc' = [wpc EXCEPT ![w] = "send"]
  /\ UNCHANGED <<callVars, cfgVars, mainVars, chanVars, processedURLs, addonDataMap,
                 inFlight, wurl, wurls, monitorVars, envVars, histVars>>

\* for _, newURL := range result.DownloadURLs: processedURLs[newURL] is set
SendSkip(w) ==
  /\ Running /\ wpc[w] = "send" /\ wurls[w] # <<>>
  /\ AlreadyProcessed(Head(wurls[w]))
  /\ wurls' = [wurls EXCEPT ![w] = Tail(@)]
  /\ UNCHANGED <<callVars, cfgVars, mainVars, chanVars, lockedVars, inFlight, wpc, wurl,
                 monitorVars, envVars, histVars>>

\* urlChan <- newURL: the buffer has room
SendURL(w) ==
  /\ Running /\ wpc[w] = "send" /\ wurls[w] # <<>>
  /\ ~AlreadyProcessed(Head(wurls[w]))
  /\ ~chanClosed
  /\ Len(urlChan) < ChanCap
  /\ urlChan' = Append(urlChan, Head(wurls[w]))
  /\ wurls' = [wurls EXCEPT ![w] = Tail(@)]
  /\ UNCHANGED <<callVars, cfgVars, mainVars, chanClosed, lockedVars, inFlight, wpc, wurl,
                 monitorVars, envVars, histVars>>

\* urlChan <- newURL on the closed channel: panic, the process dies
SendOnClosed(w) ==
  /\ Running /\ wpc[w] = "send" /\ wurls[w] # <<>>
  /\ ~AlreadyProcessed(Head(wurls[w]))
  /\ chanClosed
  /\ panicked' = TRUE
  /\ UNCHANGED <<callVars, cfgVars, mainVars, chanVars, lockedVars, inFlight, workerVars,
                 monitorVars, cancelled, histVars>>

\* Mutant: records without a source id are accumulated too.
StorableAlways(addonData) == TRUE

\* if addonData.SourceID != ""
Storable(addonData) == addonData.SourceID # EmptySid

RECURSIVE StoreAll(_, _)
StoreAll(map, data) ==
  IF data = <<>> THEN map
  ELSE StoreAll(IF Storable(Head(data))
                THEN [map EXCEPT ![Head(data).SourceID] = Append(@, Head(data))]
                ELSE map,
                Tail(data))

\* Mutant: processURL returns with the lock still held.
HeldAfterReturn(w) == w

\* defer mu.Unlock(): the holder of the lock once processURL has returned
UnlockedOnReturn(w) == NoWorker

\* for _, addonData := range result.AddonData {...}; return nil (mu.Unlock())
Store(w) ==
  /\ Running /\ wpc[w] = "send" /\ wurls[w] = <<>>
  /\ addonDataMap' = StoreAll(addonDataMap, PageRecords(wurl[w]))
  /\ mu' = UnlockedOnReturn(w)
  /\ wpc' = [wpc EXCEPT ![w] = "dec"]
  /\ UNCHANGED <<callVars, cfgVars, mainVars, chanVars, processedURLs, inFlight, wurl,
                 wurls, monitorVars, envVars, histVars>>

\* inFlight.Add(-1), and back to the head of the loop
DecInFlight(w) ==
  /\ Running /\ wpc[w] = "dec"
  /\ inFlight' = inFlight - 1
  /\ wpc' = [wpc EXCEPT ![w] = "recv"]
  /\ wurl' = [wurl EXCEPT ![w] = 0]
  /\ UNCHANGED <<callVars, cfgVars, mainVars, chanVars, lockedVars, wurls,
                 monitorVars, envVars, histVars>>

\* ------------------------------------------------------- Scrape: build, write
\* fullCatalogue := BuildCatalogue(allAddons, config.Sources); os.MkdirAll ok
Build ==
  /\ Running /\ mainpc = "build"
  /\ fullCatalogue' = BuildCatalogue(allAddons, sources)
  /\ widx' = 1
  /\ mainpc' = "writeSource"
  /\ UNCHANGED <<callVars, cfgVars, srcIdx, allAddons, written, scrapeResult, crawlResult,
                 chanVars, lockedVars, inFlight, workerVars, monitorVars,
                 envVars, histVars>>

\* os.MkdirAll(stateDir) fails: Scrape returns the error
MkdirFail ==
  /\ Running /\ mainpc = "build"
  /\ fullCatalogue' = BuildCatalogue(allAddons, sources)
  /\ scrapeResult' = "error"
  /\ mainpc' = "returned"
  /\ UNCHANGED <<callVars, cfgVars, srcIdx, widx, allAddons, written, crawlResult,
                 chanVars, lockedVars, inFlight, workerVars, monitorVars,
                 envVars, histVars>>

Writing == mainpc \in {"writeSource", "writeFull", "writeShort"}

\* The file Scrape writes next and the catalogue it holds.
CurrentFile ==
  CASE mainpc = "writeSource" ->
         (IF sources[widx] = WowInterfaceSource
          THEN "wowinterface-catalogue.json" ELSE "github-catalogue.json")
    [] mainpc = "writeFull" -> "full-catalogue.json"
    [] OTHER -> "short-catalogue.json"

CurrentCatalogue ==
  CASE mainpc = "writeSource" -> FilterCatalogue(fullCatalogue, sources[widx])
    [] mainpc = "writeFull" -> fullCatalogue
    [] OTHER -> ShortenCatalogue(fullCatalogue, CutoffDate)

\* Scrape's position after the current file was written and validated.
AfterWrite ==
  CASE mainpc = "writeSource" /\ widx < Len(sources) -> "writeSource"
    [] mainpc = "writeSource" -> "writeFull"
    [] mainpc = "writeFull" -> "writeShort"
    [] OTHER -> "returned"

\* Mutant: Scrape drops the error and goes on with the next file.
OnWriteErrorContinue == AfterWrite

\* if err := h.writeCatalogue(...); err != nil { return err }
OnWriteError == "returned"

\* writeCatalogue: os.WriteFile fails, Scrape returns the error
WriteFileFail ==
  /\ Running /\ Writing
  /\ scrapeResult' = "error"
  /\ mainpc' = OnWriteError
  /\ UNCHANGED <<callVars, cfgVars, srcIdx, widx, allAddons, fullCatalogue, written,
                 crawlResult, chanVars, lockedVars, inFlight, workerVars,
                 monitorVars, envVars, histVars>>

\* writeCatalogue: the file is written and then fails validation
WriteInvalid ==
  /\ Running /\ Writing
  /\ LET json == MarshalCatalogue(CurrentCatalogue) IN
       /\ ~SimpleValidateCatalogue(json)
       /\ written' = Append(written, [file |-> CurrentFile, json |-> json])
  /\ scrapeResult' = "error"
  /\ mainpc' = OnWriteError
  /\ UNCHANGED <<callVars, cfgVars, srcIdx, widx, allAddons, fullCatalogue, crawlResult,
                 chanVars, lockedVars, inFlight, workerVars, monitorVars,
                 envVars, histVars>>

\* writeCatalogue: the file is written and passes validation
WriteValid ==
  /\ Running /\ Writing
  /\ LET json == MarshalCatalogue(CurrentCatalogue) IN
       /\ SimpleValidateCatalogue(json)
       /\ written' = Append(written, [file |-> CurrentFile, json |-> json])
  /\ mainpc' = AfterWrite
  /\ widx' = IF mainpc = "writeSource" THEN widx + 1 ELSE widx
  /\ scrapeResult' = IF AfterWrite = "returned" THEN "ok" ELSE scrapeResult
  /\ UNCHANGED <<callVars, cfgVars, srcIdx, allAddons, fullCatalogue, crawlResult,
                 chanVars, lockedVars, inFlight, workerVars, monitorVars,
                 envVars, histVars>>

\* ---------------------------------------------------------------------- ctx
\* The caller cancels the context it gave Scrape while the sources are scraped.
Scraping == mainpc \in {"dispatch", "github", "start", "seed", "monitor", "wait", "merge"}

Cancel ==
  /\ Running /\ ~cancelled
  /\ Scraping
  /\ cancelled' = TRUE
  /\ UNCHANGED <<callVars, cfgVars, mainVars, chanVars, lockedVars, inFlight, workerVars,
                 monitorVars, panicked, histVars>>

\* ---------------------------------------------------------------- behaviours
WorkerStep(w) ==
  \/ Recv(w) \/ Exit(w) \/ IncInFlight(w) \/ ClaimSkip(w) \/ Claim(w)
  \/ FetchFail(w) \/ ParseFail(w) \/ FetchOK(w) \/ LockResults(w)
  \/ SendSkip(w) \/ SendURL(w) \/ SendOnClosed(w) \/ Store(w) \/ DecInFlight(w)

MonitorStep == MonitorSample \/ MonitorClose \/ MonitorAgain

MainStep ==
  \/ DispatchWowInterface \/ DispatchGitHub \/ DispatchDone
  \/ GitHubFail \/ GitHubOK
  \/ StartWorkers \/ Seed \/ StartMonitor \/ WaitWorkers \/ MergeAndReturn
  \/ Build \/ MkdirFail \/ WriteFileFail \/ WriteInvalid \/ WriteValid

Next ==
  \/ MainStep
  \/ MonitorStep
  \/ \E w \in Workers : WorkerStep(w)
  \/ Cancel

Spec == Init /\ [][Next]_vars

\* One crawl as main.go starts it: WowInterface is the only source and the
\* context is context.Background(), which is never cancelled.
CrawlInit == Init /\ sources = <<WowInterfaceSource>>

CrawlMainStep ==
  \/ DispatchWowInterface
  \/ StartWorkers \/ Seed \/ StartMonitor \/ WaitWorkers \/ MergeAndReturn

CrawlNext ==
  \/ CrawlMainStep
  \/ MonitorStep
  \/ \E w \in Workers : WorkerStep(w)

CrawlSpec == CrawlInit /\ [][CrawlNext]_vars

\* The Go scheduler runs every goroutine that can take a step; fetches return.
FairCrawlSpec ==
  /\ CrawlSpec
  /\ WF_vars(CrawlMainStep)
  /\ WF_vars(MonitorStep)
  /\ \A w \in Workers : WF_vars(WorkerStep(w))

\* ------------------------------------------- Scrape after its source loop
\* addonDataMap after a crawl in which the worker processed every URL, in the
\* order url = 1, 2, ...
RECURSIVE CrawledMapFrom(_, _)
CrawledMapFrom(map, url) ==
  IF url > NumURLs THEN map
  ELSE CrawledMapFrom(StoreAll(map, PageRecords(url)), url + 1)
CrawledMap == CrawledMapFrom([s \in SourceIDs |-> <<>>], 1)

\* The state of Scrape when its loop over the sources has ended: a crawl (if
\* WowInterface is a source) in which one worker fetched every URL and which
\* returned its merged addons in some map order, then (if GitHub is a source)
\* a parsed feed.
WriteInit ==
  /\ CatIdle /\ MergeIdle /\ RetryIdle /\ DelayIdle /\ CacheIdle
  /\ maxWorkers = 1
  /\ sources \in SourceLists
  /\ mainpc = "dispatch"
  /\ srcIdx = Len(sources) + 1
  /\ widx = 1
  /\ fullCatalogue = EmptyCatalogue
  /\ written = <<>>
  /\ scrapeResult = "running"
  /\ panicked = FALSE
  /\ cancelled = FALSE
  /\ urlChan = <<>>
  /\ mu = NoWorker
  /\ inFlight = 0
  /\ wurl = [w \in Workers |-> 0]
  /\ wurls = [w \in Workers |-> <<>>]
  /\ queueDepth = 0
  /\ refetched = {}
  /\ failedURLs = {}
  /\ LET crawled == WowInterfaceSource \in SeqRange(sources) IN
       /\ crawlResult = IF crawled THEN "nil" ELSE "none"
       /\ chanClosed = crawled
       /\ processedURLs = IF crawled THEN URLs ELSE {}
       /\ fetched = IF crawled THEN URLs ELSE {}
       /\ discovered = IF crawled THEN URLs \ SeqRange(StartingURLs) ELSE {}
       /\ addonDataMap = IF crawled THEN CrawledMap ELSE [s \in SourceIDs |-> <<>>]
       /\ wpc = [w \in Workers |-> IF crawled /\ w = 1 THEN "done" ELSE "idle"]
       /\ mpc = IF crawled THEN "done" ELSE "idle"
       /\ \E addons \in (IF crawled THEN MergedAddonSeqs(CrawledMap) ELSE {<<>>}),
             rows \in (IF GitHubSource \in SeqRange(sources)
                       THEN SeqsUpTo(CSVRows, MaxRows) ELSE {<<>>}) :
            allAddons = addons \o ParseCSV(rows)

WriteNext ==
  \/ DispatchDone
  \/ Build \/ MkdirFail \/ WriteFileFail \/ WriteInvalid \/ WriteValid

WriteSpec == WriteInit /\ [][WriteNext]_vars

\* --------------------------------------------------- direct calls: the merge
\* A partial record of the identity "10" with every scalar field chosen.
PartialRecord(filename, name, description, url, updated, downloads, tracks, tags) ==
  [AddonData(Sid10, filename, name, url, updated, tracks) EXCEPT
     !.Description = description, !.DownloadCount = downloads, !.TagSet = tags]

\* Tags "a" and "b" as compared strings.
TagA == <<1>>
TagB == <<2>>

\* Partial records as the Parser tags them: a listing row with a name and a
\* download count, a detail page with a description only, an API detail with
\* an updated date only, a detail page and an API detail that both carry name,
\* URL and date (the detail page with a download count of zero), and an API
\* file-list row whose date is the zero time.
MergeSamples ==
  << PartialRecord("listing.json", "lst", "", "", Nil, 5, {}, {}),
    PartialRecord("web-detail.json", "", "desc", "", Nil, Nil, {}, {}),
    PartialRecord("api-detail-v4.json", "", "", "", 1, Nil, {}, {}),
    PartialRecord("web-detail.json", "web", "", "uw", 2, 0, {ClassicTrack}, {TagB}),
    PartialRecord("api-detail-v4.json", "api", "", "ua", 3, Nil, {RetailTrack}, {TagA}),
    PartialRecord("api-filelist-v4.json", "fl", "", "", 0, Nil, {}, {}) >>

\* The lists of up to n samples, one list for each choice of samples (the
\* calls take them in every order).
SampleLists(n) ==
  { [i \in 1..Len(idx) |-> MergeSamples[idx[i]]] :
      idx \in { x \in SeqsUpTo(1..Len(MergeSamples), n) :
                  \A i \in 1..(Len(x) - 1) : x[i] <= x[i + 1] } }

MergeInit ==
  /\ ScrapeInit /\ maxWorkers = 1 /\ sources = <<WowInterfaceSource>>
  /\ CatIdle /\ RetryIdle /\ DelayIdle /\ CacheIdle
  /\ mergeRecords \in SampleLists(MaxMergeRecords)
  /\ mergeResults = {}

\* A call Builder.MergeAddonData(addonDataList) with the records in some
\* arrival order.
MergeCall ==
  /\ Cardinality(mergeResults) < MaxMergeResults
  /\ \E p \in IndexPerms(Len(mergeRecords)) :
       LET addonDataList == [i \in 1..Len(mergeRecords) |-> mergeRecords[p[i]]] IN
         \E result \in MergeAddonData(addonDataList) :
           mergeResults' = mergeResults \cup {result}
  /\ UNCHANGED <<scrapeVars, cacheVars, delayVars, catVars, retryVars, mergeRecords>>

MergeNext == MergeCall

MergeSpec == MergeInit /\ [][MergeNext]_vars

\* The input records that carry a value for a scalar field, as the fold tests
\* it: a non-empty string, a non-nil and non-zero date or count.
ScalarFields == {"Name", "Label", "Description", "URL", "UpdatedDate",
                 "CreatedDate", "DownloadCount"}
StringFields == {"Name", "Label", "Description", "URL"}
HasValue(data, field) ==
  IF field \in StringFields THEN data[field] # ""
  ELSE data[field] # Nil /\ data[field] # 0
Suppliers(field) ==
  {i \in 1..Len(mergeRecords) : HasValue(mergeRecords[i], field)}

\* The origin tags of the Parser, by kind of page.
IsWebDetail(filename) == filename = "web-detail.json"
IsAPIDetail(filename) == filename \in {"api-detail-v3.json", "api-detail-v4.json"}

\* ------------------------------------------- direct calls: the retry policy
\* The outcomes a canned client gives: those of Outcomes, a redirect and a
\* second server error.
RetryOutcomes == Outcomes \cup {301, 503}

RetryInit ==
  /\ ScrapeInit /\ maxWorkers = 1 /\ sources = <<WowInterfaceSource>>
  /\ CatIdle /\ MergeIdle /\ DelayIdle /\ CacheIdle
  /\ retryOuts \in [1..MaxAttempts -> RetryOutcomes]
  /\ retryCtxDone = FALSE
  /\ retryPc = "get"
  /\ retryAttempt = 1
  /\ retryLog = <<>>
  /\ retryLastErr = 0
  /\ retryMaxAttempts = MaxAttempts
  /\ retryResult = NoResult

\* resp, err := client.Get(ctx, url) of the current attempt
ThisOutcome == retryOuts[retryAttempt]

\* Mutant: the second attempt is taken for the last one.
LastAttemptSecond == retryAttempt >= 2

\* if attempt == config.MaxAttempts { break }
LastAttempt == retryAttempt = MaxAttempts

\* Mutant: lastErr keeps the first error it was given.
LastErrKeptFirst ==
  IF retryLastErr # 0 THEN retryLastErr
  ELSE IF ThisOutcome = NetErr THEN retryAttempt ELSE 0

\* lastErr = err: the error of the current attempt, nil for a response.
LastErrAssigned == IF ThisOutcome = NetErr THEN retryAttempt ELSE 0

\* WithRetry returns: the call is over.
RetryReturn(status, err) ==
  /\ retryResult' = [status |-> status, err |-> err]
  /\ retryPc' = "returned"
  /\ retryLog' = Append(retryLog, ThisOutcome)
  /\ UNCHANGED <<scrapeVars, cacheVars, delayVars, catVars, mergeVars, retryOuts,
                 retryCtxDone, retryAttempt, retryMaxAttempts>>

\* The attempt succeeds: return resp, nil
RetrySuccess ==
  /\ retryPc = "get"
  /\ ThisOutcome = 200
  /\ RetryReturn(200, "nil")
  /\ UNCHANGED retryLastErr

\* The attempt's outcome is not retried: return resp, nil
RetryTerminal ==
  /\ retryPc = "get"
  /\ ThisOutcome # 200 /\ ~shouldRetry(ThisOutcome)
  /\ retryLastErr' = LastErrAssigned
  /\ RetryReturn(ThisOutcome, "nil")

\* The last attempt's outcome would be retried: break, then the wrapped last
\* error (and no response) or the last response is returned.
RetryExhausted ==
  /\ retryPc = "get"
  /\ ThisOutcome # 200 /\ shouldRetry(ThisOutcome) /\ LastAttempt
  /\ retryLastErr' = LastErrAssigned
  /\ IF retryLastErr' # 0
     THEN RetryReturn(0, "exhausted")
     ELSE RetryReturn(ThisOutcome, "nil")

\* The outcome is retried: the call enters the select on the backoff timer.
RetryBackoff ==
  /\ retryPc = "get"
  /\ ThisOutcome # 200 /\ shouldRetry(ThisOutcome) /\ ~LastAttempt
  /\ retryLastErr' = LastErrAssigned
  /\ retryLog' = Append(retryLog, ThisOutcome)
  /\ retryPc' = "wait"
  /\ UNCHANGED <<scrapeVars, cacheVars, delayVars, catVars, mergeVars, retryOuts,
                 retryCtxDone, retryAttempt, retryMaxAttempts, retryResult>>

\* Mutant: the wait is a plain sleep, which no cancellation interrupts.
TimerCaseAlways == TRUE

\* The select takes the timer's case: the wait ran to its end with ctx.Done()
\* never ready.
TimerCase == ~retryCtxDone

\* case <-time.After(delay): on to the next attempt
RetryWake ==
  /\ retryPc = "wait" /\ TimerCase
  /\ retryAttempt' = retryAttempt + 1
  /\ retryPc' = "get"
  /\ UNCHANGED <<scrapeVars, cacheVars, delayVars, catVars, mergeVars, retryOuts,
                 retryCtxDone, retryLog, retryLastErr, retryMaxAttempts, retryResult>>

\* case <-ctx.Done(): return nil, ctx.Err()
RetryCtxDone ==
  /\ retryPc = "wait" /\ retryCtxDone
  /\ retryResult' = [status |-> 0, err |-> "ctx"]
  /\ retryPc' = "returned"
  /\ UNCHANGED <<scrapeVars, cacheVars, delayVars, catVars, mergeVars, retryOuts,
                 retryCtxDone, retryAttempt, retryLog, retryLastErr, retryMaxAttempts>>

\* The caller cancels the ctx it gave WithRetry.
RetryCancel ==
  /\ retryPc \in {"get", "wait"} /\ ~retryCtxDone
  /\ retryCtxDone' = TRUE
  /\ UNCHANGED <<scrapeVars, cacheVars, delayVars, catVars, mergeVars, retryOuts, retryPc,
                 retryAttempt, retryLog, retryLastErr, retryMaxAttempts, retryResult>>

RetryNext ==
  \/ RetrySuccess \/ RetryTerminal \/ RetryExhausted \/ RetryBackoff
  \/ RetryWake \/ RetryCtxDone \/ RetryCancel

RetrySpec == RetryInit /\ [][RetryNext]_vars

\* ------------------------------------- WithRetry under every configuration
\* A call retry.WithRetry(ctx, client, url, config) for a config with any
\* MaxAttempts from 0 on and any outcomes of the attempts it permits.
ConfigInit ==
  /\ ScrapeInit /\ maxWorkers = 1 /\ sources = <<WowInterfaceSource>>
  /\ CatIdle /\ MergeIdle /\ DelayIdle /\ CacheIdle
  /\ retryMaxAttempts \in 0..MaxConfigAttempts
  /\ retryOuts \in [1..retryMaxAttempts -> RetryOutcomes]
  /\ retryCtxDone \in BOOLEAN
  /\ retryPc = "get"
  /\ retryAttempt = 1
  /\ retryLog = <<>>
  /\ retryLastErr = 0
  /\ retryResult = NoResult

\* The call runs to its return.
ConfigCall ==
  /\ retryPc = "get"
  /\ retryResult' = FetchView(WithRetryConfig(retryOuts, retryMaxAttempts, retryCtxDone))
  /\ retryPc' = "returned"
  /\ UNCHANGED <<scrapeVars, cacheVars, delayVars, catVars, mergeVars, retryOuts,
                 retryCtxDone, retryAttempt, retryLog, retryLastErr, retryMaxAttempts>>

ConfigNext == ConfigCall

ConfigSpec == ConfigInit /\ [][ConfigNext]_vars

\* --------------------------------------------- direct calls: the retry delay
\* The responses a failed attempt hands to getRetryDelay: none (an error), or
\* a retried status with or without a Retry-After header.
DelayResponses ==
  {NilResponse} \cup {Response(st, h) : st \in {429, 503}, h \in RetryAfterValues}

DelayConfigs ==
  {Config(i, m) : i \in 0..MaxConfigDelay, m \in 0..MaxConfigDelay}

DelayInit ==
  /\ ScrapeInit /\ maxWorkers = 1 /\ sources = <<WowInterfaceSource>>
  /\ CatIdle /\ MergeIdle /\ RetryIdle /\ CacheIdle
  /\ delayCall \in [resp : DelayResponses, attempt : 1..MaxDelayAttempt,
                    config : DelayConfigs]
  /\ delayResult = Nil

\* delay := getRetryDelay(resp, attempt, config)
DelayCall ==
  /\ delayCall.attempt >= 1 /\ delayResult = Nil
  /\ delayResult' = getRetryDelay(delayCall.resp, delayCall.attempt,
                                  delayCall.config)
  /\ UNCHANGED <<scrapeVars, cacheVars, catVars, mergeVars, retryVars, delayCall>>

DelayNext == DelayCall

DelaySpec == DelayInit /\ [][DelayNext]_vars

\* ------------------------------------------- direct calls: the cache transport
\* The requests of a run: one of the search class and one other.
CacheRequests == {SearchRequest, FileListRequest}
CacheKeys == {makeCacheKey(req) : req \in CacheRequests}

\* The response an earlier run stored.
OldResponse == HTTPResponse(200, "old")
\* What the network answers in this run.
NewResponses == {HTTPResponse(200, "new"), HTTPResponse(500, "down")}

\* transport.RoundTrip's result: a response, or an error.
TransportError == [err |-> TRUE, resp |-> HTTPResponse(0, 0)]
TransportResults ==
  {TransportError} \cup {[err |-> FALSE, resp |-> r] : r \in NewResponses}
\* No transport call was made.
NoTransportCall == [err |-> FALSE, resp |-> HTTPResponse(0, 0)]

\* The ages, at the start of the run, of the entries earlier runs left: one
\* hour either side of each TTL boundary.
AgesAtStart ==
  {SearchTTLHours - 1, SearchTTLHours, DefaultTTLHours - 1, DefaultTTLHours}

\* What an earlier run can have left under one key: nothing, a stored
\* response of some age, or a file cut short by a failed write.
FilesAtStart ==
  {NoFile} \cup {File(runStart - age, DumpResponse(OldResponse)) : age \in AgesAtStart}
           \cup {File(runStart - 1, <<>>)}

\* What os.WriteFile (after os.MkdirAll) does to the entry: it writes the
\* whole dump, or fails before opening the file, or fails after truncating it.
WriteOutcomes == {"written", "untouched", "truncated"}

CacheInit ==
  /\ ScrapeInit /\ maxWorkers = 1 /\ sources = <<WowInterfaceSource>>
  /\ CatIdle /\ MergeIdle /\ RetryIdle /\ DelayIdle
  /\ cacheFiles \in [CacheKeys -> FilesAtStart]
  /\ cacheNow = runStart
  /\ cacheLog = <<>>

\* Mutant: the age is measured from the wall clock of the moment.
AgeAtWallClock(file) == cacheNow - file.modTime

\* age := t.runStart.Sub(stat.ModTime())
Age(file) == runStart - file.modTime

\* base == "-search" || filepath.Ext(base) == "-search"
SearchClass(base) == base = SearchSuffix \/ Ext(base) = SearchSuffix

\* Mutant: every entry is found expired.
cacheExpiredAlways(path) == TRUE

\* FileCachingTransport.cacheExpired
cacheExpired(path) ==
  LET file == cacheFiles[Base(path)]
      ttlHours == IF SearchClass(Base(path)) THEN SearchTTLHours
                  ELSE DefaultTTLHours
  IN IF ~file.exists THEN TRUE ELSE Age(file) >= ttlHours

\* FileCachingTransport.readCacheEntry on the files fs
readCacheEntry(fs, cacheKey) ==
  IF ~fs[Base(cachePath(cacheKey))].exists
  THEN [err |-> TRUE, resp |-> HTTPResponse(0, 0)]
  ELSE ReadResponse(fs[Base(cachePath(cacheKey))].data)

\* FileCachingTransport.writeCacheEntry: the files after it, for what the
\* file system did
writeCacheEntry(cacheKey, resp, outcome) ==
  CASE outcome = "written" ->
         [cacheFiles EXCEPT ![Base(cachePath(cacheKey))] =
            File(cacheNow, DumpResponse(resp))]
    [] outcome = "truncated" ->
         [cacheFiles EXCEPT ![Base(cachePath(cacheKey))] = File(cacheNow, <<>>)]
    [] OTHER -> cacheFiles

\* One RoundTrip call as the log keeps it: the request, the hour of the
\* call, the last-modified time of its entry then, whether it was a hit, the
\* expiry verdict ("none" when cacheExpired was not asked), the transport's
\* result, whether the entry's file was written to and whether the whole
\* response was stored, what was returned.
CallRecord(req, hit, verdict, net, wrote, stored, ret) ==
  [req |-> req, at |-> cacheNow,
   modTime |-> cacheFiles[makeCacheKey(req)].modTime,
   hit |-> hit, verdict |-> verdict, net |-> net, wrote |-> wrote,
   stored |-> stored, ret |-> ret]

\* FileCachingTransport.RoundTrip
RoundTrip(req, net, outcome) ==
  LET cacheKey == makeCacheKey(req)
      first == readCacheEntry(cacheFiles, cacheKey)
      expired == cacheExpired(cachePath(cacheKey))
      verdict == IF first.err THEN "none"
                 ELSE IF expired THEN "expired" ELSE "fresh"
      hit == ~first.err /\ ~expired
      writes == ~net.err /\ Cacheable(net.resp)
      files == IF writes THEN writeCacheEntry(cacheKey, net.resp, outcome)
               ELSE cacheFiles
      second == readCacheEntry(files, cacheKey)
  IN
  /\ Len(cacheLog) < MaxFetches
  /\ IF hit
     THEN /\ cacheLog' = Append(cacheLog,
                           CallRecord(req, TRUE, verdict, NoTransportCall,
                                      FALSE, FALSE, first))
          /\ UNCHANGED cacheFiles
     ELSE IF net.err
     THEN /\ cacheLog' = Append(cacheLog,
                           CallRecord(req, FALSE, verdict, net, FALSE, FALSE,
                                      net))
          /\ UNCHANGED cacheFiles
     ELSE /\ cacheFiles' = files
          /\ cacheLog' = Append(cacheLog,
                           CallRecord(req, FALSE, verdict, net,
                                      writes /\ outcome # "untouched",
                                      writes /\ outcome = "written",
                                      IF ~second.err THEN second ELSE net))
  /\ UNCHANGED <<scrapeVars, catVars, mergeVars, retryVars, delayVars, cacheNow>>

\* A fetch goes through the transport.
Fetch ==
  \E req \in CacheRequests, net \in TransportResults, outcome \in WriteOutcomes :
    RoundTrip(req, net, outcome)

\* An hour of the run passes.
Tick ==
  /\ cacheNow < runStart + MaxRunHours
  /\ cacheNow' = cacheNow + 1
  /\ UNCHANGED <<scrapeVars, catVars, mergeVars, retryVars, delayVars,
                 cacheFiles, cacheLog>>

CacheNext == Fetch \/ Tick

CacheSpec == CacheInit /\ [][CacheNext]_vars

\* ------------------------------------------------- direct calls: the builder
\* Addons as the scrapers produce them: merged WowInterface records and parsed
\* GitHub rows.
SampleAddons ==
  ((MergeAddonData(<<PageRecords(1)[2]>>)
      \cup MergeAddonData(PageRecords(2) \o PageRecords(3))) \ {Absent})
  \cup {parseCSVRow(r) : r \in {x \in CSVRows : ~RowError(x)}}

\* The cutoff dates given to ShortenCatalogue.
Cutoffs == {0, CutoffDate}

CatInit ==
  /\ ScrapeInit /\ maxWorkers = 1 /\ sources = <<WowInterfaceSource>>
  /\ MergeIdle /\ RetryIdle /\ DelayIdle /\ CacheIdle
  /\ catAddons \in SeqsUpTo(SampleAddons, MaxAddons)
  /\ catalogue = EmptyCatalogue
  /\ catOps = <<>>

\* A builder call as catOps keeps it: the function called, and the source
\* list or the cutoff date it was given.
BuilderCall(op, srcs, cutoffDate) ==
  [op |-> op, sources |-> srcs, cutoff |-> cutoffDate]

\* The addon list a builder call works on: the given addons at first, later
\* the list of the catalogue at hand.
CallInput == IF catOps = <<>> THEN catAddons ELSE catalogue.AddonSummaryList

\* A call Builder.BuildCatalogue(addons, sources)
BuildCall ==
  /\ Len(catOps) < MaxOps
  /\ \E srcs \in SourceLists \cup {<<>>} :
       /\ catalogue' = BuildCatalogue(CallInput, srcs)
       /\ catOps' = Append(catOps, BuilderCall("build", srcs, 0))
  /\ UNCHANGED <<scrapeVars, cacheVars, delayVars, mergeVars, retryVars, catAddons>>

\* A call Builder.ShortenCatalogue(catalogue, cutoffDate)
ShortenCall ==
  /\ catOps # <<>> /\ Len(catOps) < MaxOps
  /\ \E cutoffDate \in Cutoffs :
       /\ catalogue' = ShortenCatalogue(catalogue, cutoffDate)
       /\ catOps' = Append(catOps, BuilderCall("shorten", <<>>, cutoffDate))
  /\ UNCHANGED <<scrapeVars, cacheVars, delayVars, mergeVars, retryVars, catAddons>>

\* A call Builder.FilterCatalogue(catalogue, addon.Source == source)
FilterCall ==
  /\ catOps # <<>> /\ Len(catOps) < MaxOps
  /\ \E source \in {WowInterfaceSource, GitHubSource} :
       /\ catalogue' = FilterCatalogue(catalogue, source)
       /\ catOps' = Append(catOps, BuilderCall("filter", <<source>>, 0))
  /\ UNCHANGED <<scrapeVars, cacheVars, delayVars, mergeVars, retryVars, catAddons>>

CatNext == BuildCall \/ ShortenCall \/ FilterCall

CatalogueSpec == CatInit /\ [][CatNext]_vars

\* -------------------------------------------------------------------- claims
\* A worker has dequeued a URL and not finished processing it.
Busy(w) == wpc[w] \in {"inc", "claim", "fetch", "lock", "send", "dec"}

\* C1: no URL is fetched more than once in a crawl: a fetch is made only by a
\* worker that has just marked the URL visited, for a URL not fetched before,
\* and no two workers fetch the same URL.
NoURLFetchedTwice ==
  /\ refetched = {}
  /\ \A w \in Active :
       wpc[w] = "fetch" => (wurl[w] \in processedURLs /\ wurl[w] \notin fetched)
  /\ \A w, v \in Active :
       (w # v /\ wpc[w] = "fetch" /\ wpc[v] = "fetch") => wurl[w] # wurl[v]

\* C1 witness: two workers dequeued the same URL; one fetches it while the
\* other has skipped it.
DuplicateSkippedDuringFetch ==
  \E w, v \in Active :
    /\ w # v
    /\ wpc[v] = "fetch" /\ wpc[w] = "dec"
    /\ wurl[w] = wurl[v]

\* C2: under fair scheduling the crawl reaches frontier-empty and
\* in-flight-zero, the monitor closes the frontier, every worker exits and
\* scrapeWowInterface returns.
CrawlTerminates ==
  <>( /\ urlChan = <<>> /\ inFlight = 0 /\ chanClosed
      /\ \A w \in Active : wpc[w] = "done"
      /\ crawlResult = "nil" )

\* C3: no worker sends on the frontier after the monitor has closed it (the
\* send would panic).
NoSendOnClosedChannel == ~panicked

\* C4: at the step that closes the frontier, the frontier holds no URL and no
\* worker has a dequeued URL whose processing is unfinished.
CloseOnlyWhenIdle ==
  [][ (~chanClosed /\ chanClosed') =>
        (urlChan = <<>> /\ \A w \in Active : ~Busy(w)) ]_vars

\* C5: a worker that holds the lock and is blocked sending on the full
\* frontier can still complete the send: some other worker is able to take a
\* URL off the frontier (it is at the head of its loop, or can return to it
\* without needing the lock: after its decrement, or after a failed fetch).
BlockedSendCanComplete ==
  \A w \in Active :
    ( /\ mu = w /\ wpc[w] = "send" /\ wurls[w] # <<>>
      /\ ~AlreadyProcessed(Head(wurls[w]))
      /\ ~chanClosed /\ Len(urlChan) >= ChanCap )
    => \E v \in Active \ {w} : wpc[v] \in {"recv", "dec", "fetch"}

\* C6: every unvisited URL that a successful parse returns is eventually
\* fetched.
DiscoveredEventuallyFetched ==
  \A u \in URLs : (u \in discovered) ~> (u \in fetched)

\* C7: a failed URL never terminates a worker or the crawl: a worker leaves
\* its loop only when the frontier is closed and drained, and
\* scrapeWowInterface returns no error.
FailureKeepsWorkerAndCrawl ==
  /\ \A w \in Active : wpc[w] = "done" => chanClosed
  /\ crawlResult \in {"none", "nil"}
  /\ (mainpc = "merge" /\ failedURLs # {}) => \A w \in Active : wpc[w] = "done"

\* C7 witness: a URL failed, and the crawl returned without an error.
FailedURLAndCrawlReturned ==
  /\ failedURLs # {}
  /\ crawlResult = "nil"

\* C8: merging starts only after the frontier is closed and every worker has
\* left its pull loop (none fetches, enqueues or records results).
MergeOnlyAfterWorkersExit ==
  (mainpc = "merge" \/ crawlResult = "nil") =>
    ( /\ chanClosed
      /\ \A w \in Active : wpc[w] = "done"
      /\ mu = NoWorker )

\* C8 witness: merging is about to start after a crawl that fetched two URLs.
MergingAfterCrawl ==
  /\ mainpc = "merge"
  /\ Cardinality(fetched) >= 2

\* C9: once the context was cancelled during the scrape, Scrape writes no
\* catalogue file.
NoWriteAfterCancel == cancelled => written = <<>>

\* C10: every record of every catalogue file Scrape writes carries a non-zero
\* updated date.
WrittenRecordsDated ==
  \A i \in 1..Len(written) :
    \A k \in 1..Len(written[i].json.list) :
      written[i].json.list[k].updated_date.time # 0

\* C11: every catalogue returned by BuildCatalogue, ShortenCatalogue or
\* FilterCatalogue, after any composition of these calls, has a total equal to
\* the length of its addon list.
TotalMatchesList ==
  catOps # <<>> => catalogue.Total = Len(catalogue.AddonSummaryList)

\* C11 witness: a composition of calls reduced a list of two addons to one.
CatalogueShrunk ==
  /\ Len(catOps) >= 2
  /\ Len(catAddons) = 2
  /\ catalogue.Total = 1

\* Two source ids in ascending string order (equal ids allowed).
SourceIDsAscend(a, b) == ~StrLess(b, a)

\* C12: every catalogue file Scrape writes lists its records in ascending
\* source-id order.
WrittenSortedBySourceID ==
  \A i \in 1..Len(written) :
    \A k \in 1..(Len(written[i].json.list) - 1) :
      SourceIDsAscend(written[i].json.list[k].source_id,
                      written[i].json.list[k + 1].source_id)

\* C12 witness: a file with two records was written although the scrapers had
\* delivered the addons in descending source-id order.
WrittenSortedFromUnsorted ==
  /\ \E i \in 1..Len(written) : Len(written[i].json.list) >= 2
  /\ \E k \in 1..(Len(allAddons) - 1) :
       StrLess(allAddons[k + 1].SourceID, allAddons[k].SourceID)

\* C13: when a detail-page record and an API-detail record (and no record of
\* another origin) supply a value for a scalar field, the merged record carries
\* an API-detail value.
APIDetailValueWins ==
  \A r \in mergeResults \ {Absent} : \A field \in ScalarFields :
    LET web == {i \in Suppliers(field) : IsWebDetail(mergeRecords[i].Filename)}
        api == {i \in Suppliers(field) : IsAPIDetail(mergeRecords[i].Filename)}
    IN (web # {} /\ api # {} /\ Suppliers(field) = web \cup api)
         => r[field] \in {mergeRecords[i][field] : i \in api}

\* C14: every arrival order of the same partial records gives the same merged
\* record: all MergeAddonData calls on them return one result.
MergeOrderIndependent == Cardinality(mergeResults) <= 1

Present(data, field) ==
  IF field \in StringFields THEN data[field] # "" ELSE data[field] # Nil

\* The records folded after every other one: of a priority above all others.
FoldedLast ==
  {i \in 1..Len(mergeRecords) :
     \A j \in 1..Len(mergeRecords) \ {i} :
       getFilePriority(mergeRecords[j].Filename)
         < getFilePriority(mergeRecords[i].Filename)}

\* C16: every scalar field present in the record folded last, whatever its
\* value, is the value of the merged record.
LastPresentFieldReplaces ==
  \A r \in mergeResults \ {Absent} : \A i \in FoldedLast : \A field \in ScalarFields :
    Present(mergeRecords[i], field) => r[field] = mergeRecords[i][field]

\* C17: MergeAddonData returns no record exactly when no input record carries
\* a non-zero updated date.
AbsentIffNoUpdatedDate ==
  \A r \in mergeResults : (r = Absent) <=> (Suppliers("UpdatedDate") = {})

\* C17 witness: records were given, one of them with the zero time as its
\* date, and no record was returned.
UndatedRecordsDropped ==
  /\ mergeRecords # <<>>
  /\ \E i \in 1..Len(mergeRecords) : mergeRecords[i].UpdatedDate = 0
  /\ Absent \in mergeResults

\* The tracks and tags observed by the input records.
ObservedTracks == UNION {mergeRecords[i].GameTrackSet : i \in 1..Len(mergeRecords)}
ObservedTags == UNION {mergeRecords[i].TagSet : i \in 1..Len(mergeRecords)}

\* The position of a track in types.AllGameTracks.
TrackRank(track) == CHOOSE i \in 1..Len(AllGameTracks) : AllGameTracks[i] = track

\* A merged record lists its tracks once each in the canonical order and its
\* tags once each in lexicographic order, and its tags are the observed ones.
ListsCanonical(r) ==
  /\ \A i, j \in 1..Len(r.GameTrackList) :
       i < j => TrackRank(r.GameTrackList[i]) < TrackRank(r.GameTrackList[j])
  /\ \A i, j \in 1..Len(r.TagList) : i < j => StrLess(r.TagList[i], r.TagList[j])
  /\ SeqRange(r.TagList) = ObservedTags

\* C18 as stated: the track list of a merged record holds exactly the union
\* of the track sets of the input records.
TracksAreTheUnion ==
  \A r \in mergeResults \ {Absent} :
    ListsCanonical(r) /\ SeqRange(r.GameTrackList) = ObservedTracks

\* C18 amended: the track list holds exactly the union of the track sets of
\* the input records when some track was observed, and the single retail track
\* when none was.
TracksAreTheUnionOrDefault ==
  \A r \in mergeResults \ {Absent} :
    /\ ListsCanonical(r)
    /\ SeqRange(r.GameTrackList)
         = IF ObservedTracks = {} THEN {RetailTrack} ELSE ObservedTracks

\* C18 witness: records observing {retail} and {classic}, with two tags, were
\* merged to the two tracks in canonical order and the two tags in order.
RetailAndClassicMerged ==
  /\ ObservedTracks = {RetailTrack, ClassicTrack}
  /\ \E r \in mergeResults :
       /\ r # Absent
       /\ r.GameTrackList = <<RetailTrack, ClassicTrack>>
       /\ r.TagList = <<TagA, TagB>>

\* An outcome the policy has to retry: a network-level error, a 429, a 5xx.
Retryable(o) == o = NetErr \/ o = 429 \/ o >= 500

\* C19: an attempt is followed by another one only if its outcome is a
\* network error, a 429 or a 5xx, and such an outcome before the last attempt
\* is retried unless the ctx is done; any other outcome ends WithRetry right
\* after that attempt, returned as-is without an error.
RetriedIffRetryable ==
  /\ \A k \in 1..(Len(retryLog) - 1) : Retryable(retryLog[k])
  /\ (retryLog # <<>> /\ ~Retryable(retryLog[Len(retryLog)]))
       => ( /\ retryPc = "returned"
            /\ retryResult = [status |-> retryLog[Len(retryLog)], err |-> "nil"] )
  /\ ( /\ retryLog # <<>> /\ Retryable(retryLog[Len(retryLog)])
        /\ Len(retryLog) < MaxAttempts /\ retryPc = "returned" )
       => retryResult.err = "ctx"

\* C19 witness: a 500 was retried, and the 404 of the second attempt was
\* returned at once.
ServerErrorRetriedThenClientError ==
  /\ retryLog = <<500, 404>>
  /\ retryPc = "returned"
  /\ retryResult = [status |-> 404, err |-> "nil"]

\* C20: the attempts made are the given outcomes in order, up to the first
\* outcome that is not retried or up to MaxAttempts, and WithRetry (its ctx
\* not done) returns the outcome of the last attempt made.
AttemptsUntilTerminalOrMax ==
  /\ Len(retryLog) <= MaxAttempts
  /\ retryLog = SubSeq(retryOuts, 1, Len(retryLog))
  /\ (retryPc = "returned" /\ retryResult.err # "ctx") =>
       LET n == Len(retryLog) IN
         /\ n >= 1
         /\ \A k \in 1..(n - 1) : Retryable(retryOuts[k])
         /\ n = MaxAttempts \/ ~Retryable(retryOuts[n])
         /\ retryResult.status = retryOuts[n]

\* C20 witness: the outcomes 500, 500, 200 gave three attempts and the 200.
ThreeAttemptsThenSuccess ==
  /\ retryOuts = <<500, 500, 200>>
  /\ retryPc = "returned"
  /\ Len(retryLog) = 3
  /\ retryResult = [status |-> 200, err |-> "nil"]


Min(a, b) == IF a <= b THEN a ELSE b

\* The failed attempt carries no Retry-After hint.
NoHint(resp) == resp = NilResponse \/ resp.retryAfter = ""

\* The waits of attempts 1..5 under retry.DefaultConfig().
DefaultWaits == <<1, 2, 4, 8, 8>>

\* C21: without a retry-after hint the wait after attempt n is
\* min(MaxDelay, InitialDelay * 2^(n-1)), for every configuration; under
\* InitialDelay = 1s, MaxDelay = 8s the waits of attempts 1..5 are
\* 1s, 2s, 4s, 8s, 8s.
WaitIsCappedBackoff ==
  (delayResult # Nil /\ NoHint(delayCall.resp)) =>
    /\ delayResult = Min(delayCall.config.MaxDelay,
                         delayCall.config.InitialDelay
                           * 2^(delayCall.attempt - 1))
    /\ (delayCall.config = DefaultConfig /\ delayCall.attempt <= 5) =>
         delayResult = DefaultWaits[delayCall.attempt]

\* The failed attempt is a 429 whose Retry-After header gives a number of
\* seconds.
HasSecondsHint(resp) ==
  /\ resp # NilResponse /\ resp.status = 429
  /\ resp.retryAfter # "" /\ ~Atoi(resp.retryAfter).err

\* C22: after a 429 response with a retry-after hint of h seconds the wait is
\* min(h, MaxDelay), whatever the attempt number; a hint of 100s under
\* MaxDelay = 5s gives 5s.
HintReplacesBackoff ==
  (delayResult # Nil /\ HasSecondsHint(delayCall.resp)) =>
    delayResult = Min(Atoi(delayCall.resp.retryAfter).n,
                      delayCall.config.MaxDelay)

\* Every canned attempt outcome is a network error.
AllNetworkErrors == \A i \in 1..MaxAttempts : retryOuts[i] = NetErr

\* C23: when all MaxAttempts attempts end in a network error, WithRetry makes
\* exactly MaxAttempts attempts and returns no response and the exhaustion
\* error, which wraps the error of the last attempt.
ExhaustionWrapsLastError ==
  (retryPc = "returned" /\ AllNetworkErrors /\ retryResult.err # "ctx") =>
    /\ Len(retryLog) = MaxAttempts
    /\ retryResult = [status |-> 0, err |-> "exhausted"]
    /\ retryLastErr = MaxAttempts

AllAttemptsFailedOnNetwork ==
  /\ retryPc = "returned" /\ AllNetworkErrors
  /\ Len(retryLog) = MaxAttempts
  /\ retryResult.err = "exhausted"

\* C24: once the ctx is done while WithRetry waits between attempts, the next
\* thing WithRetry does is return the cancellation error: no further attempt
\* is made, however many remain.
CancelledWaitReturns ==
  [][(retryPc = "wait" /\ retryCtxDone) =>
       /\ retryPc' = "returned"
       /\ retryResult' = [status |-> 0, err |-> "ctx"]
       /\ retryAttempt' = retryAttempt
       /\ retryLog' = retryLog]_retryVars

CancelledWithTwoAttemptsLeft ==
  /\ retryPc = "returned" /\ retryResult.err = "ctx"
  /\ Len(retryLog) = 1 /\ MaxAttempts - Len(retryLog) >= 2

\* The calls of the log, by position.
Calls == 1..Len(cacheLog)

\* C25: on a cache miss RoundTrip returns what the underlying transport
\* produced for the request, response or error; a stored response is
\* returned only on a hit.
MissReturnsTransportResult ==
  \A i \in Calls : ~cacheLog[i].hit => cacheLog[i].ret = cacheLog[i].net

\* The cache key carries the search-class suffix.
HasSearchSuffix(cacheKey) ==
  /\ Len(cacheKey) >= Len(SearchSuffix)
  /\ SubSeq(cacheKey, Len(cacheKey) - Len(SearchSuffix) + 1, Len(cacheKey))
       = SearchSuffix

\* The TTL configured for the class of the request's entry.
ClassTTLHours(req) ==
  IF HasSearchSuffix(makeCacheKey(req)) THEN SearchTTLHours
  ELSE DefaultTTLHours

\* C26: an entry of the search class (request path /search) is treated as
\* expired once its age reaches SearchTTLHours, every other entry once its
\* age reaches DefaultTTLHours.
ClassesExpireAtTheirOwnTTL ==
  \A i \in Calls :
    cacheLog[i].verdict # "none" =>
      ( cacheLog[i].verdict = "expired"
          <=> runStart - cacheLog[i].modTime >= ClassTTLHours(cacheLog[i].req) )

\* C27: the cache directory changes only in a RoundTrip call whose transport
\* returned a 2xx response: a non-2xx response, a transport error and a cache
\* hit leave every entry as it was.
CacheChangesOnlyOn2xx ==
  [][cacheFiles' # cacheFiles =>
       /\ Len(cacheLog') = Len(cacheLog) + 1
       /\ ~cacheLog'[Len(cacheLog')].hit
       /\ ~cacheLog'[Len(cacheLog')].net.err
       /\ cacheLog'[Len(cacheLog')].net.resp.status >= 200
       /\ cacheLog'[Len(cacheLog')].net.resp.status < 300]_cacheVars

FailedFetchAndHitSeen ==
  /\ \E i \in Calls :
       /\ ~cacheLog[i].hit
       /\ cacheLog[i].net.err \/ cacheLog[i].net.resp.status = 500
  /\ \E i \in Calls : cacheLog[i].hit

\* Calls i < j are for the same request and no call from i up to j wrote
\* its entry.
Unmodified(i, j) ==
  /\ i < j /\ cacheLog[i].req = cacheLog[j].req
  /\ \A k \in i..(j - 1) :
       cacheLog[k].req = cacheLog[i].req => ~cacheLog[k].wrote

\* C28: the expiry verdict does not depend on the wall clock: an unmodified
\* entry gets the same verdict at every fetch of the run, and an entry
\* written during the run is never found expired in that run.
VerdictStableWithinRun ==
  /\ \A i, j \in Calls :
       ( Unmodified(i, j) /\ cacheLog[i].verdict # "none"
                          /\ cacheLog[j].verdict # "none" )
         => cacheLog[i].verdict = cacheLog[j].verdict
  /\ \A i, j \in Calls :
       ( i < j /\ cacheLog[i].req = cacheLog[j].req /\ cacheLog[i].wrote )
         => cacheLog[j].verdict # "expired"

FreshAcrossTTLBoundary ==
  \E i, j \in Calls :
    /\ Unmodified(i, j)
    /\ runStart - cacheLog[i].modTime = DefaultTTLHours - 1
    /\ cacheLog[i].at < cacheLog[j].at
    /\ cacheLog[i].verdict = "fresh" /\ cacheLog[j].verdict = "fresh"

\* The calls for req, from call i on, that went to the underlying transport.
NetworkCallsFrom(req, i) ==
  {k \in Calls : k >= i /\ cacheLog[k].req = req /\ ~cacheLog[k].hit}

\* C29 as stated: two fetches of one URL within a run return identical
\* responses and cause at most one call of the underlying transport.
TwoFetchesOneNetworkCall ==
  \A i, j \in Calls :
    (i < j /\ cacheLog[i].req = cacheLog[j].req) =>
      /\ cacheLog[i].ret = cacheLog[j].ret
      /\ Cardinality(NetworkCallsFrom(cacheLog[i].req, i)) <= 1

\* C29, amended: when the first fetch is a cache hit, or its transport call
\* returns a 2xx response that is stored, every later fetch of the URL in the
\* run is a cache hit returning the identical response, so that from that
\* first fetch on the fetches cause at most one call of the underlying
\* transport.
FetchAfterStoredIsHit ==
  \A i, j \in Calls :
    ( i < j /\ cacheLog[i].req = cacheLog[j].req
            /\ (cacheLog[i].hit \/ cacheLog[i].stored) ) =>
      /\ cacheLog[j].hit
      /\ cacheLog[j].ret = cacheLog[i].ret
      /\ Cardinality(NetworkCallsFrom(cacheLog[i].req, i)) <= 1

StoredThenServedLater ==
  \E i, j \in Calls :
    /\ i < j /\ cacheLog[i].req = cacheLog[j].req
    /\ cacheLog[i].stored /\ cacheLog[j].hit
    /\ cacheLog[i].at < cacheLog[j].at
    /\ cacheLog[j].ret.resp = HTTPResponse(200, "new")

\* The places url holds on the frontier: its occurrences in the channel and
\* the workers that dequeued it and have not yet reached the claim.
FrontierPlaces(url) ==
  Cardinality({i \in 1..Len(urlChan) : urlChan[i] = url})
    + Cardinality({w \in Active : wpc[w] \in {"inc", "claim"} /\ wurl[w] = url})

\* C30: a URL is placed on the frontier only once, however often it is
\* discovered: it holds at most one place there, and none once it is marked
\* seen.
URLOnFrontierOnce ==
  \A url \in URLs :
    FrontierPlaces(url) + (IF url \in processedURLs THEN 1 ELSE 0) <= 1

\* How often x occurs in seq.
Count(seq, x) == Cardinality({i \in 1..Len(seq) : seq[i] = x})

\* The step is a builder call of function op.
CallOf(op) ==
  /\ Len(catOps') = Len(catOps) + 1
  /\ catOps'[Len(catOps')].op = op

\* The record is in the allow-list srcs; the empty list allows every record.
Allowed(addon, srcs) ==
  srcs = <<>> \/ \E i \in 1..Len(srcs) : addon.Source = srcs[i]

\* C34: the catalogue BuildCatalogue returns holds exactly the given records
\* whose source is in the allow-list, every record when the list is empty,
\* each as often as it was given and unchanged.
BuildKeepsAllowedRecords ==
  [][CallOf("build") =>
       \A a \in SeqRange(CallInput) \cup SeqRange(catalogue'.AddonSummaryList) :
         Count(catalogue'.AddonSummaryList, a)
           = IF Allowed(a, catOps'[Len(catOps')].sources)
             THEN Count(CallInput, a) ELSE 0]_catVars

BuiltFromOneOfTwoSources ==
  /\ Len(catOps) = 1 /\ catOps[1].op = "build"
  /\ catOps[1].sources = <<GitHubSource>>
  /\ \E i \in 1..Len(catAddons) : catAddons[i].Source = WowInterfaceSource
  /\ Len(catalogue.AddonSummaryList) = 1
  /\ catalogue.AddonSummaryList[1].Source = GitHubSource

\* The positions of seq holding a record updated strictly after the cutoff.
LaterThan(seq, cutoffDate) ==
  {i \in 1..Len(seq) : seq[i].UpdatedDate > cutoffDate}

\* The k-th smallest element of the set of positions.
NthOf(positions, k) ==
  CHOOSE i \in positions : Cardinality({j \in positions : j < i}) = k - 1

\* C35: the catalogue ShortenCatalogue returns lists exactly the records of
\* its input updated strictly after the cutoff, in their input order, under
\* the input's spec version and datestamp.
ShortenKeepsLaterRecords ==
  [][CallOf("shorten") =>
       LET kept == LaterThan(catalogue.AddonSummaryList,
                             catOps'[Len(catOps')].cutoff)
       IN /\ Len(catalogue'.AddonSummaryList) = Cardinality(kept)
          /\ \A k \in 1..Cardinality(kept) :
               catalogue'.AddonSummaryList[k]
                 = catalogue.AddonSummaryList[NthOf(kept, k)]
          /\ catalogue'.Version = catalogue.Version
          /\ catalogue'.Datestamp = catalogue.Datestamp]_catVars

RecordAtCutoffDropped ==
  /\ Len(catOps) = 2 /\ catOps[2].op = "shorten"
  /\ catOps[1].op = "build" /\ catOps[1].sources = <<>>
  /\ \E i \in 1..Len(catAddons) : catAddons[i].UpdatedDate = catOps[2].cutoff
  /\ \E i \in 1..Len(catAddons) : catAddons[i].UpdatedDate > catOps[2].cutoff
  /\ Len(catalogue.AddonSummaryList) = 1

\* The workers that marked their URL visited and have not yet entered the
\* section that records the results of its fetch.
ClaimedUnrecorded ==
  {w \in Active : wpc[w] \in {"fetch", "lock"} /\ wurl[w] \in processedURLs}

\* C31: the shared lock is never free while a URL is marked visited and the
\* results of its fetch are not recorded yet: marking and recording are one
\* critical section.
MarkedAndRecordedTogether == mu = NoWorker => ClaimedUnrecorded = {}

\* How many times the accumulation map holds the record.
TimesAccumulated(record) ==
  IF record.SourceID \in DOMAIN addonDataMap
  THEN Count(addonDataMap[record.SourceID], record) ELSE 0

\* C32: a URL whose fetch fails, ends with a status other than 200 or does not
\* parse leaves no record in the accumulation map, and the step in which
\* processURL gives it up changes neither the map nor the frontier.
FailedURLLeavesNoTrace ==
  [][/\ \A url \in failedURLs' : \A i \in 1..Len(PageRecords(url)) :
          TimesAccumulated(PageRecords(url)[i])' = 0
     /\ failedURLs' # failedURLs =>
          /\ addonDataMap' = addonDataMap
          /\ urlChan' = urlChan
          /\ processedURLs' = processedURLs]_vars

\* A crawl returned with one URL given up and another one's records kept.
CrawlEndedWithFailedAndStoredURL ==
  /\ crawlResult = "nil"
  /\ failedURLs # {}
  /\ \E url \in fetched \ failedURLs : \E i \in 1..Len(PageRecords(url)) :
       TimesAccumulated(PageRecords(url)[i]) = 1

\* C33: every record MergeAddonData returns lists at least one game track,
\* and when no input record observed a track the list is the single retail
\* track.
MergedTrackListNeverEmpty ==
  \A r \in mergeResults \ {Absent} :
    /\ r.GameTrackList # <<>>
    /\ ObservedTracks = {} => r.GameTrackList = <<RetailTrack>>

\* Dated records that observed no track were merged to a retail record.
TracklessRecordsMergedToRetail ==
  /\ mergeRecords # <<>>
  /\ ObservedTracks = {}
  /\ \E r \in mergeResults : r # Absent /\ r.GameTrackList = <<RetailTrack>>

\* How many times the successful parses of the crawl returned the record.
TimesParsed(record) ==
  Cardinality(UNION {{<<url, i>> : i \in {j \in 1..Len(PageRecords(url)) :
                                            PageRecords(url)[j] = record}} :
                     url \in fetched \ failedURLs})

\* The records any page can yield, and those the accumulation map holds.
KnownRecords ==
  UNION {SeqRange(PageRecords(url)) : url \in URLs}
    \cup UNION {SeqRange(addonDataMap[sid]) : sid \in DOMAIN addonDataMap}

\* C36: when the crawl has returned, the list accumulated for a source id
\* holds every record with that non-empty id that a successful parse
\* returned, as often as it was returned, and nothing else; no list holds a
\* record without a source id.
AccumulatedExactlyTheParsedRecords ==
  crawlResult = "nil" =>
    \A sid \in DOMAIN addonDataMap : \A record \in KnownRecords :
      Count(addonDataMap[sid], record)
        = IF record.SourceID = sid /\ sid # EmptySid THEN TimesParsed(record) ELSE 0

\* The crawl returned after two workers each parsed a page, and the page with
\* a record lacking a source id was among them.
TwoWorkersAccumulated ==
  /\ crawlResult = "nil"
  /\ maxWorkers = 2
  /\ fetched \ failedURLs = {1, 2}
  /\ addonDataMap[Sid2] # <<>> /\ addonDataMap[Sid10] # <<>>
  /\ addonDataMap[EmptySid] = <<>>

\* C37: a worker holds the shared lock only inside the section of processURL
\* that enqueues URLs and records results (the check-and-claim section is a
\* single step): never while it fetches or parses, and never after processURL
\* has returned, on any return path.
LockHeldOnlyToRecord ==
  /\ mu \in {NoWorker} \cup Active
  /\ \A w \in Active : mu = w => wpc[w] = "send"

\* One worker is fetching while another one is about to take the lock for its
\* check-and-claim section, and the lock is free.
LockFreeDuringFetch ==
  \E w, v \in Active :
    /\ w # v
    /\ wpc[w] = "fetch" /\ wpc[v] = "claim" /\ mu = NoWorker

\* WithRetry has returned after its last permitted attempt, which a server
\* answered with a status the policy retries.
LastAttemptAnsweredRetryable ==
  /\ retryPc = "returned"
  /\ Len(retryLog) = MaxAttempts
  /\ retryOuts[MaxAttempts] # NetErr
  /\ shouldRetry(retryOuts[MaxAttempts])

\* C38: when the last permitted attempt is answered 429 or 5xx, WithRetry
\* returns that response and no error, whatever the earlier attempts ended
\* with, and processURL takes the result for a failed URL.
LastRetryableResponseReturned ==
  LastAttemptAnsweredRetryable =>
    /\ retryResult = [status |-> retryOuts[MaxAttempts], err |-> "nil"]
    /\ retryResult.status = 429 \/ retryResult.status >= 500
    /\ FetchFailed(retryResult)

\* Network errors on every attempt but the last, which was answered 503.
ServerErrorAfterNetworkErrors ==
  /\ LastAttemptAnsweredRetryable
  /\ \A i \in 1..(MaxAttempts - 1) : retryOuts[i] = NetErr
  /\ retryOuts[MaxAttempts] = 503
  /\ retryResult = [status |-> 503, err |-> "nil"]

\* C39: whatever config.MaxAttempts and the outcomes of the attempts,
\* WithRetry returns a response or an error, never neither.
ReturnsResponseOrError ==
  retryPc = "returned" => (retryResult.status # 0 \/ retryResult.err # "nil")

\* The i-th file Scrape wrote passes the validation writeCatalogue runs on it.
WrittenValid(i) == SimpleValidateCatalogue(written[i].json)

\* C40: Scrape returns success only when every file it wrote passed its
\* validation; a file that failed validation is the last one written, Scrape
\* has returned an error on it, and once Scrape has an error (a failed write
\* or a failed validation) no file is written any more.
ScrapeStopsAtFirstWriteError ==
  /\ [](scrapeResult = "ok" => \A i \in 1..Len(written) : WrittenValid(i))
  /\ [](\A i \in 1..Len(written) :
          ~WrittenValid(i) => (i = Len(written) /\ scrapeResult = "error"
                               /\ mainpc = "returned"))
  /\ [][scrapeResult = "error" => (written' = written /\ scrapeResult' = "error")]_vars

\* Scrape returned an error on a file that failed validation, after it had
\* written a valid file and before it wrote the files left.
StoppedAfterInvalidFile ==
  /\ scrapeResult = "error" /\ mainpc = "returned"
  /\ Len(written) >= 2
  /\ Len(written) < Len(sources) + 2
  /\ ~WrittenValid(Len(written))

====
